---- MODULE Spec2Model ----
(***************************************************************************)
(* A model of the process registry and the shell tool of editor-mcp:       *)
(*   - OutputBuffer  (src/unnamed/part_006, lines 46-165)                  *)
(*   - Process       (src/unnamed/part_006, lines 20-44 and 167-256)       *)
(*   - Registry      (src/internal/registry.go)                            *)
(*   - ExecuteShell  (src/internal/server.go)                              *)
(*                                                                         *)
(* The module holds several specifications over one set of variables:      *)
(*   Spec          the Registry with its processes, workers and the OS     *)
(*   SpecFair      Spec under the fairness of the workers' scheduling      *)
(*   SpecGrace     SpecFair with the grace-period goroutines scheduled too *)
(*   SpecPersist   Spec with the monitor's save to a PersistenceFile       *)
(*   SpecRead      Spec with the read-only calls, for absent ids too       *)
(*   SpecCapacity  the Registry of TestRegistryCapacityLimit, swept        *)
(*   SpecOutput    one Process and the outputBuf its output is captured in *)
(*   SpecCleanup   one started Process, its handles closed by Cleanup,     *)
(*                 cmd.Wait() and the capture workers                      *)
(*   SpecLoad      a Registry that loaded its table from a PersistenceFile *)
(*   SpecShell     one ExecuteShell call (src/internal/server.go)          *)
(*   SpecPipe      one Process, its output pipes and capture workers       *)
(*   SpecRestart   a Registry constructed on the file of another config    *)
(*   SpecStatus    Spec with GetProcessStatus read by read                 *)
(*   SpecSave      two monitors in saveToDisk, step by step                *)
(*   SpecRoundTrip one Process with its metadata, saved and loaded         *)
(*   SpecReader    SpecBuf with a client reading one stream sequentially   *)
(*   SpecList      the Registry listed with ListProcesses                  *)
(*   SpecBuf       one OutputBuffer driven by arbitrary writes and reads   *)
(*   SpecScenario  the OutputBuffer of TestOutputBuffer (cap 100)          *)
(* Each specification leaves the variables of the other parts unchanged.   *)
(***************************************************************************)
EXTENDS Integers, Sequences, FiniteSets, TLC

(***************************************************************************)
(* Bounds of the model.                                                    *)
(***************************************************************************)
\* largest OutputBufferSize tried by SpecBuf (RegistryConfig.OutputBufferSize)
MaxCap == 3
\* longest data slice handed to one WriteStdout / WriteStderr in SpecBuf
MaxData == 2
\* most bytes written to both streams together in SpecBuf
MaxTotal == 4
\* largest maxBytes of a read in SpecBuf
MaxRead == 3

\* number of StartProcess calls that spawn a process in Spec
MaxStarts == 2
\* number of StartProcess calls that spawn a process in SpecFair
FairStarts == 1
\* grace-period goroutines pending on one process at a time
MaxDeferred == 1
\* number of StartProcess calls that spawn a process in SpecCapacity
CapacityStarts == 3
\* number of StartProcess calls that spawn a process in SpecRead
ReadStarts == 1
\* number of StartProcess calls that spawn a process in SpecList
ListStarts == 2
\* width in bits of the machine integer that stands for Go's int in SpecList
IntBits == 4
\* number of calls of Cleanup on the Process of SpecCleanup
MaxCleanups == 2
\* largest number of entries of a snapshot loaded in SpecLoad
MaxLoaded == 2

\* the byte values written in SpecBuf
Bytes == {"a", "b"}

Min(a, b) == IF a < b THEN a ELSE b

\* all sequences over S of length lo..hi
SeqsOf(S, lo, hi) == UNION {[1..n -> S] : n \in lo..hi}

VARIABLES
    buf,        \* the OutputBuffer under test: stdout, stderr, stdoutPos, stderrPos, maxSize
    written,    \* per stream, every byte ever handed to WriteStdout / WriteStderr of buf
    op,         \* the last call made on buf, with its arguments and results
    prev,       \* the call before op, kept when op repeats it (a read with the same arguments)
    config,     \* RegistryConfig: MaxProcesses, PersistenceFile (set or not)
    starts,     \* how many processes this run may spawn
    processes,  \* Registry.processes: the ids in the table
    proc,       \* the Process objects ever created, by id (in the table or not)
    os,         \* the OS process of each Process
    mon,        \* where the monitorProcess goroutine of each Process stands
    deferred,   \* per id, the grace-period goroutines of TerminateProcess still sleeping
    mu,         \* Registry.mu: "free", or "stuck" once a holder waits for it itself
    cancelled,  \* Registry.ctx is cancelled
    cleanupLoop, \* the cleanupLoop goroutine: in its "select", or "returned"
    ret,        \* the last Registry call and the error it returned; a grace-period
                \* goroutine records here the error of its SendSignal, or NotSent
    handles,    \* the pipes and the signal channel of the Process under test: who
                \* has called Close on each, which were used after a Close, and
                \* where the goroutines working on them stand
    disk,       \* the file at config.PersistenceFile: missing, unreadable, not a
                \* snapshot, or a snapshot of a table
    shell,      \* one synchronous ExecuteShell call: its arguments, where it stands,
                \* its command, its done channel, its timer and its result
    reader,     \* a client that reads one stream of buf from position 0 on, each
                \* read at the position the one before returned: the stream, the
                \* next position, and every byte received with its offset
    saving      \* the executions of saveToDisk under way: whose monitor runs it,
                \* where it stands, and the text it has encoded

bufVars == <<buf, written, op, prev, handles, disk, shell, reader, saving>>
regVars == <<config, starts, processes, proc, os, mon, deferred, mu, cancelled,
            cleanupLoop, ret, handles, disk, shell, reader, saving>>
vars == <<buf, written, op, prev, config, starts, processes, proc, os, mon,
          deferred, mu, cancelled, cleanupLoop, ret, handles, disk, shell, reader, saving>>
\* every variable but shell
notShell == <<buf, written, op, prev, config, starts, processes, proc, os, mon,
              deferred, mu, cancelled, cleanupLoop, ret, handles, disk, reader, saving>>

(***************************************************************************)
(* OutputBuffer                                                            *)
(***************************************************************************)
\* no saveToDisk under way
NoSaving == {}

\* a reader that has not read yet
NoReader == [stream |-> "none", next |-> 0, got |-> <<>>]

NewOutputBuffer(maxSize) ==
    [stdout |-> <<>>, stderr |-> <<>>, stdoutPos |-> 0, stderrPos |-> 0,
     maxSize |-> maxSize]

\* s[excess:] of Go: drop the first excess elements
DropFront(s, excess) == SubSeq(s, excess + 1, Len(s))

\* WriteStdout that trims the slice and forgets to advance stdoutPos
WriteStdout_NoAdvance(ob, data) ==
    LET appended == ob.stdout \o data
        excess == Len(appended) - ob.maxSize
    IN  IF Len(appended) > ob.maxSize
        THEN [ob EXCEPT !.stdout = DropFront(appended, excess)]
        ELSE [ob EXCEPT !.stdout = appended]

WriteStdout(ob, data) ==
    LET appended == ob.stdout \o data
        excess == Len(appended) - ob.maxSize
    IN  IF Len(appended) > ob.maxSize
        THEN [ob EXCEPT !.stdout = DropFront(appended, excess),
                        !.stdoutPos = @ + excess]
        ELSE [ob EXCEPT !.stdout = appended]

WriteStderr(ob, data) ==
    LET appended == ob.stderr \o data
        excess == Len(appended) - ob.maxSize
    IN  IF Len(appended) > ob.maxSize
        THEN [ob EXCEPT !.stderr = DropFront(appended, excess),
                        !.stderrPos = @ + excess]
        ELSE [ob EXCEPT !.stderr = appended]

\* ReadStdout that indexes the slice by the absolute position
ReadStdout_IndexByPosition(ob, position, maxBytes) ==
    LET pos == IF position < ob.stdoutPos THEN ob.stdoutPos ELSE position
        bufferOffset == pos
        endOffset == Min(bufferOffset + maxBytes, Len(ob.stdout))
        data == SubSeq(ob.stdout, bufferOffset + 1, endOffset)
        newPosition == pos + Len(data)
    IN  IF bufferOffset >= Len(ob.stdout)
        THEN [data |-> <<>>, newPosition |-> pos, hasMore |-> FALSE]
        ELSE [data |-> data, newPosition |-> newPosition,
              hasMore |-> newPosition < ob.stdoutPos + Len(ob.stdout)]

\* ReadStdout that computes the new position from the requested position
ReadStdout_NewPosFromRequest(ob, position, maxBytes) ==
    LET pos == IF position < ob.stdoutPos THEN ob.stdoutPos ELSE position
        bufferOffset == pos - ob.stdoutPos
        endOffset == Min(bufferOffset + maxBytes, Len(ob.stdout))
        data == SubSeq(ob.stdout, bufferOffset + 1, endOffset)
        newPosition == position + Len(data)
    IN  IF bufferOffset >= Len(ob.stdout)
        THEN [data |-> <<>>, newPosition |-> pos, hasMore |-> FALSE]
        ELSE [data |-> data, newPosition |-> newPosition,
              hasMore |-> newPosition < ob.stdoutPos + Len(ob.stdout)]

\* ReadStdout that only reports the base position when the request is below it
ReadStdout_SkipOnClamp(ob, position, maxBytes) ==
    LET pos == IF position < ob.stdoutPos THEN ob.stdoutPos ELSE position
        bufferOffset == pos - ob.stdoutPos
        endOffset == Min(bufferOffset + maxBytes, Len(ob.stdout))
        data == SubSeq(ob.stdout, bufferOffset + 1, endOffset)
        newPosition == pos + Len(data)
    IN  IF bufferOffset >= Len(ob.stdout)
        THEN [data |-> <<>>, newPosition |-> pos, hasMore |-> FALSE]
        ELSE IF position < ob.stdoutPos
        THEN [data |-> <<>>, newPosition |-> pos, hasMore |-> TRUE]
        ELSE [data |-> data, newPosition |-> newPosition,
              hasMore |-> newPosition < ob.stdoutPos + Len(ob.stdout)]

\* the three results of a read: data, newPosition, hasMore
ReadStdout(ob, position, maxBytes) ==
    LET pos == IF position < ob.stdoutPos THEN ob.stdoutPos ELSE position
        bufferOffset == pos - ob.stdoutPos
        endOffset == Min(bufferOffset + maxBytes, Len(ob.stdout))
        data == SubSeq(ob.stdout, bufferOffset + 1, endOffset)
        newPosition == pos + Len(data)
    IN  IF bufferOffset >= Len(ob.stdout)
        THEN [data |-> <<>>, newPosition |-> pos, hasMore |-> FALSE]
        ELSE [data |-> data, newPosition |-> newPosition,
              hasMore |-> newPosition < ob.stdoutPos + Len(ob.stdout)]

\* ReadStderr that reads from the oldest retained byte when the position is
\* below the base position, and leaves the position as it was asked
ReadStderr_KeepsPosition(ob, position, maxBytes) ==
    LET bufferOffset == IF position < ob.stderrPos THEN 0 ELSE position - ob.stderrPos
        endOffset == Min(bufferOffset + maxBytes, Len(ob.stderr))
        data == SubSeq(ob.stderr, bufferOffset + 1, endOffset)
        newPosition == position + Len(data)
    IN  IF bufferOffset >= Len(ob.stderr)
        THEN [data |-> <<>>, newPosition |-> position, hasMore |-> FALSE]
        ELSE [data |-> data, newPosition |-> newPosition,
              hasMore |-> newPosition < ob.stderrPos + Len(ob.stderr)]

ReadStderr(ob, position, maxBytes) ==
    LET pos == IF position < ob.stderrPos THEN ob.stderrPos ELSE position
        bufferOffset == pos - ob.stderrPos
        endOffset == Min(bufferOffset + maxBytes, Len(ob.stderr))
        data == SubSeq(ob.stderr, bufferOffset + 1, endOffset)
        newPosition == pos + Len(data)
    IN  IF bufferOffset >= Len(ob.stderr)
        THEN [data |-> <<>>, newPosition |-> pos, hasMore |-> FALSE]
        ELSE [data |-> data, newPosition |-> newPosition,
              hasMore |-> newPosition < ob.stderrPos + Len(ob.stderr)]

GetStdoutSize(ob) == [size |-> Len(ob.stdout), position |-> ob.stdoutPos]

GetStderrSize(ob) == [size |-> Len(ob.stderr), position |-> ob.stderrPos]

(***************************************************************************)
(* Process                                                                 *)
(***************************************************************************)
ProcessStateRunning == "running"
ProcessStateTerminated == "terminated"

NoErr == "nil"
ErrProcessNotFound == "process not found"
ErrProcessNotRunning == "process is not running"
ErrProcessAlreadyTerminated == "process already terminated"
ErrRegistryFull == "process registry is full"
ErrInvalidInput == "invalid input"
\* errors of the os and os/exec packages
ErrProcessDone == "os: process already finished"
ErrSpawn == "failed to start command"
ErrWrite == "write: broken or closed pipe"
\* the grace-period goroutine found the process not running and called no SendSignal
NotSent == "not sent"

SIGTERM == "SIGTERM"
SIGKILL == "SIGKILL"
Signals == {SIGTERM, SIGKILL}

\* MaxProcesses of TestRegistryCapacityLimit
TestMaxProcesses == 2

\* the Process that StartProcess builds; ExitCode is <<>> for a nil *int
NewProcess(captureOutput) ==
    [State |-> ProcessStateRunning,
     ExitCode |-> <<>>,
     process |-> "set",
     stdin |-> "open",
     stdout |-> IF captureOutput THEN "open" ELSE "nil",
     stderr |-> IF captureOutput THEN "open" ELSE "nil",
     signalChan |-> "open"]

GetState(p) == p.State

SetState(p, state) == [p EXCEPT !.State = state]

GetExitCode(p) == p.ExitCode

SetExitCode(p, code) == [p EXCEPT !.ExitCode = <<code>>]

IsRunning(p) == GetState(p) = ProcessStateRunning

\* Cleanup that closes the handles and leaves them in the Process
Cleanup_KeepsHandles(p) == p

Cleanup(p) ==
    [p EXCEPT !.stdin = "nil", !.stdout = "nil", !.stderr = "nil", !.signalChan = "nil"]

(***************************************************************************)
(* The OS process behind a Process: "alive", "term" (alive, SIGTERM        *)
(* pending), "kill" (alive, SIGKILL pending), or exited and not changing   *)
(* any more: "exit0", "exit1" (a non-zero exit code), "killed" (by signal),*)
(* "exit0ctx" (exit status 0, and the command was interrupted because the  *)
(* ctx of StartProcess ended before cmd.Wait() collected the status), and  *)
(* "reaped" once cmd.Wait() has collected the exit status.                 *)
(***************************************************************************)
Exited == {"exit0", "exit0ctx", "exit1", "killed"}

\* ProcessState.ExitCode(): -1 when a signal ended the process
ExitStatus(o) == IF o \in {"exit0", "exit0ctx"} THEN 0 ELSE IF o = "exit1" THEN 1 ELSE 0 - 1

\* a signal reaching the OS process
Deliver(o, sig) ==
    IF o \in Exited \/ o \in {"kill", "reaped"} THEN o
    ELSE IF sig = SIGKILL THEN "kill"
    ELSE "term"

\* the process ends by itself
OsExit(id) ==
    /\ id \in DOMAIN os
    /\ os[id] \in {"alive", "term"}
    /\ \E o \in {"exit0", "exit1"} : os' = [os EXCEPT ![id] = o]
    /\ UNCHANGED <<bufVars, config, starts, processes, proc, mon, deferred, mu,
                   cancelled, cleanupLoop, ret>>

\* SIGTERM takes effect: it ends the process, or the process handles it and goes on
OsTerm(id) ==
    /\ id \in DOMAIN os
    /\ os[id] = "term"
    /\ \E o \in {"killed", "alive"} : os' = [os EXCEPT ![id] = o]
    /\ UNCHANGED <<bufVars, config, starts, processes, proc, mon, deferred, mu,
                   cancelled, cleanupLoop, ret>>

\* SIGKILL takes effect
OsKill(id) ==
    /\ id \in DOMAIN os
    /\ os[id] = "kill"
    /\ os' = [os EXCEPT ![id] = "killed"]
    /\ UNCHANGED <<bufVars, config, starts, processes, proc, mon, deferred, mu,
                   cancelled, cleanupLoop, ret>>

\* Process.SendSignal: the error it returns ...
SendSignalErr(id) ==
    IF proc[id].process = "nil" THEN ErrProcessNotFound
    ELSE IF os[id] = "reaped" THEN ErrProcessDone
    ELSE NoErr

\* ... and the OS processes after it
SendSignal(id, sig) ==
    IF SendSignalErr(id) = NoErr THEN [os EXCEPT ![id] = Deliver(@, sig)] ELSE os

\* WriteToStdin that writes to the handle without looking whether it is nil
WriteToStdin_NoNilCheck(id) ==
    IF os[id] \in Exited \/ os[id] = "reaped" THEN ErrWrite ELSE NoErr

\* Process.WriteToStdin: the error it returns
WriteToStdin(id) ==
    IF proc[id].stdin = "nil" THEN ErrProcessNotRunning
    ELSE IF os[id] \in Exited \/ os[id] = "reaped" THEN ErrWrite
    ELSE NoErr

(***************************************************************************)
(* Registry                                                                *)
(***************************************************************************)
Return(call, err) == ret' = [call |-> call, err |-> err]

\* uuid.New(): an id no Process has had
NewId == Len(proc) + 1

\* StartProcess that admits one process more than MaxProcesses
StartProcess_OffByOne(captureOutput, spawn) ==
    /\ mu = "free"
    /\ IF Cardinality(processes) > config.MaxProcesses
       THEN /\ Return("StartProcess", ErrRegistryFull)
            /\ UNCHANGED <<processes, proc, os, mon, deferred>>
       ELSE IF ~spawn
       THEN /\ Return("StartProcess", ErrSpawn)
            /\ UNCHANGED <<processes, proc, os, mon, deferred>>
       ELSE /\ NewId <= starts
            /\ proc' = Append(proc, NewProcess(captureOutput))
            /\ os' = Append(os, "alive")
            /\ processes' = processes \cup {NewId}
            /\ mon' = Append(mon, "wait")
            /\ deferred' = Append(deferred, 0)
            /\ Return("StartProcess", NoErr)
    /\ UNCHANGED <<bufVars, config, starts, mu, cancelled, cleanupLoop>>

\* spawn: whether the pipes and cmd.Start() succeed
StartProcess(captureOutput, spawn) ==
    /\ mu = "free"
    /\ IF Cardinality(processes) >= config.MaxProcesses
       THEN /\ Return("StartProcess", ErrRegistryFull)
            /\ UNCHANGED <<processes, proc, os, mon, deferred>>
       ELSE IF ~spawn
       THEN /\ Return("StartProcess", ErrSpawn)
            /\ UNCHANGED <<processes, proc, os, mon, deferred>>
       ELSE /\ NewId <= starts
            /\ proc' = Append(proc, NewProcess(captureOutput))
            /\ os' = Append(os, "alive")
            /\ processes' = processes \cup {NewId}
            /\ mon' = Append(mon, "wait")
            /\ deferred' = Append(deferred, 0)
            /\ Return("StartProcess", NoErr)
    /\ UNCHANGED <<bufVars, config, starts, mu, cancelled, cleanupLoop>>

\* the ctx given to StartProcess ends while cmd.Wait() has not returned:
\* exec.CommandContext kills the process
CancelCtx(id) ==
    /\ id \in DOMAIN proc
    /\ mon[id] = "wait"
    /\ os' = [os EXCEPT ![id] = IF @ = "exit0" THEN "exit0ctx" ELSE Deliver(@, SIGKILL)]
    /\ UNCHANGED <<bufVars, config, starts, processes, proc, mon, deferred, mu, cancelled,
                   cleanupLoop, ret>>

\* monitorProcess, cmd.Wait() returns: nil after exit status 0, an *ExitError
\* after any other status, ctx.Err() when the command was interrupted by ctx
\* and still exited with status 0
MonitorWait(id) ==
    /\ id \in DOMAIN proc
    /\ mon[id] = "wait"
    /\ os[id] \in Exited
    /\ LET code == ExitStatus(os[id])
           err == IF code # 0 THEN "ExitError"
                  ELSE IF os[id] = "exit0ctx" THEN "ctx" ELSE "nil"
       IN  proc' = [proc EXCEPT ![id] =
                       IF err = "ExitError" THEN SetExitCode(@, code)
                       ELSE IF err = "nil" THEN SetExitCode(@, 0)
                       ELSE @]
    /\ mon' = [mon EXCEPT ![id] = "setState"]
    /\ os' = [os EXCEPT ![id] = "reaped"]
    /\ UNCHANGED <<bufVars, config, starts, processes, deferred, mu, cancelled,
                   cleanupLoop, ret>>

\* a monitor that sets the state "error" when cmd.Wait() gave no exit code
MonitorSetState_ErrorState(id) ==
    /\ id \in DOMAIN proc
    /\ mon[id] = "setState"
    /\ proc' = [proc EXCEPT ![id] =
                    SetState(@, IF GetExitCode(@) = <<>> THEN "error"
                                ELSE ProcessStateTerminated)]
    /\ mon' = [mon EXCEPT ![id] = IF config.PersistenceFile THEN "save" ELSE "done"]
    /\ UNCHANGED <<bufVars, config, starts, processes, os, deferred, mu, cancelled,
                   cleanupLoop, ret>>

\* monitorProcess, proc.SetState(ProcessStateTerminated)
MonitorSetState(id) ==
    /\ id \in DOMAIN proc
    /\ mon[id] = "setState"
    /\ proc' = [proc EXCEPT ![id] = SetState(@, ProcessStateTerminated)]
    /\ mon' = [mon EXCEPT ![id] = IF config.PersistenceFile THEN "save" ELSE "done"]
    /\ UNCHANGED <<bufVars, config, starts, processes, os, deferred, mu, cancelled,
                   cleanupLoop, ret>>

\* what saveToDisk encodes: per entry of the table its state and exit code
\* (and the metadata no operation reads back)
Snapshot ==
    [kind |-> "snapshot",
     data |-> [id \in processes |->
                 [state |-> proc[id].State, exit_code |-> proc[id].ExitCode]]]

\* monitorProcess, r.saveToDisk(): under the read lock of r.mu, the snapshot
\* of the table replaces the file
MonitorSave(id) ==
    /\ id \in DOMAIN proc
    /\ mon[id] = "save"
    /\ mu = "free"
    /\ mon' = [mon EXCEPT ![id] = "done"]
    /\ disk' = Snapshot
    /\ UNCHANGED <<buf, written, op, prev, handles, shell, reader, saving, config, starts, processes,
                   proc, os, deferred, mu, cancelled, cleanupLoop, ret>>

\* TerminateProcess that honours force only without a grace period
TerminateProcess_ForceAfterGrace(id, force, gracePeriod) ==
    /\ mu = "free"
    /\ IF id \notin processes
       THEN /\ Return("TerminateProcess", ErrProcessNotFound)
            /\ UNCHANGED <<os, deferred>>
       ELSE IF ~IsRunning(proc[id])
       THEN /\ Return("TerminateProcess", ErrProcessAlreadyTerminated)
            /\ UNCHANGED <<os, deferred>>
       ELSE IF force /\ gracePeriod = 0
       THEN /\ os' = SendSignal(id, SIGKILL)
            /\ Return("TerminateProcess force", SendSignalErr(id))
            /\ UNCHANGED deferred
       ELSE /\ os' = SendSignal(id, SIGTERM)
            /\ Return(IF force THEN "TerminateProcess force" ELSE "TerminateProcess",
                      SendSignalErr(id))
            /\ IF SendSignalErr(id) = NoErr /\ gracePeriod > 0
               THEN /\ deferred[id] < MaxDeferred
                    /\ deferred' = [deferred EXCEPT ![id] = @ + 1]
               ELSE UNCHANGED deferred
    /\ UNCHANGED <<bufVars, config, starts, processes, proc, mon, mu, cancelled,
                   cleanupLoop>>

\* TerminateProcess without the test of IsRunning
TerminateProcess_NoStateCheck(id, force, gracePeriod) ==
    /\ mu = "free"
    /\ IF id \notin processes
       THEN /\ Return("TerminateProcess", ErrProcessNotFound)
            /\ UNCHANGED <<os, deferred>>
       ELSE IF force
       THEN /\ os' = SendSignal(id, SIGKILL)
            /\ Return("TerminateProcess force", SendSignalErr(id))
            /\ UNCHANGED deferred
       ELSE /\ os' = SendSignal(id, SIGTERM)
            /\ Return("TerminateProcess", SendSignalErr(id))
            /\ IF SendSignalErr(id) = NoErr /\ gracePeriod > 0
               THEN /\ deferred[id] < MaxDeferred
                    /\ deferred' = [deferred EXCEPT ![id] = @ + 1]
               ELSE UNCHANGED deferred
    /\ UNCHANGED <<bufVars, config, starts, processes, proc, mon, mu, cancelled,
                   cleanupLoop>>

\* gracePeriod: 0, or 1 for any positive duration; the call is recorded in ret
\* as "TerminateProcess force" when it takes the force branch
TerminateProcess(id, force, gracePeriod) ==
    /\ mu = "free"
    /\ IF id \notin processes
       THEN /\ Return("TerminateProcess", ErrProcessNotFound)
            /\ UNCHANGED <<os, deferred>>
       ELSE IF ~IsRunning(proc[id])
       THEN /\ Return("TerminateProcess", ErrProcessAlreadyTerminated)
            /\ UNCHANGED <<os, deferred>>
       ELSE IF force
       THEN /\ os' = SendSignal(id, SIGKILL)
            /\ Return("TerminateProcess force", SendSignalErr(id))
            /\ UNCHANGED deferred
       ELSE /\ os' = SendSignal(id, SIGTERM)
            /\ Return("TerminateProcess", SendSignalErr(id))
            /\ IF SendSignalErr(id) = NoErr /\ gracePeriod > 0
               THEN /\ deferred[id] < MaxDeferred
                    /\ deferred' = [deferred EXCEPT ![id] = @ + 1]
               ELSE UNCHANGED deferred
    /\ UNCHANGED <<bufVars, config, starts, processes, proc, mon, mu, cancelled,
                   cleanupLoop>>

\* a grace-period goroutine with the test of IsRunning inverted
DeferredKill_OnlyIfTerminated(id) ==
    /\ id \in DOMAIN proc
    /\ deferred[id] > 0
    /\ deferred' = [deferred EXCEPT ![id] = @ - 1]
    /\ IF ~IsRunning(proc[id])
       THEN /\ os' = SendSignal(id, SIGKILL)
            /\ Return("TerminateProcess goroutine", SendSignalErr(id))
       ELSE /\ UNCHANGED os
            /\ Return("TerminateProcess goroutine", NotSent)
    /\ UNCHANGED <<bufVars, config, starts, processes, proc, mon, mu, cancelled,
                   cleanupLoop>>

\* a grace-period goroutine that sends SIGTERM once more
DeferredKill_SigTerm(id) ==
    /\ id \in DOMAIN proc
    /\ deferred[id] > 0
    /\ deferred' = [deferred EXCEPT ![id] = @ - 1]
    /\ IF IsRunning(proc[id])
       THEN /\ os' = SendSignal(id, SIGTERM)
            /\ Return("TerminateProcess goroutine", SendSignalErr(id))
       ELSE /\ UNCHANGED os
            /\ Return("TerminateProcess goroutine", NotSent)
    /\ UNCHANGED <<bufVars, config, starts, processes, proc, mon, mu, cancelled,
                   cleanupLoop>>

\* the goroutine of TerminateProcess after time.Sleep(gracePeriod); it holds
\* the *Process, so that it runs whether or not the id is still in the table
DeferredKill(id) ==
    /\ id \in DOMAIN proc
    /\ deferred[id] > 0
    /\ deferred' = [deferred EXCEPT ![id] = @ - 1]
    /\ IF IsRunning(proc[id])
       THEN /\ os' = SendSignal(id, SIGKILL)
            /\ Return("TerminateProcess goroutine", SendSignalErr(id))
       ELSE /\ UNCHANGED os
            /\ Return("TerminateProcess goroutine", NotSent)
    /\ UNCHANGED <<bufVars, config, starts, processes, proc, mon, mu, cancelled,
                   cleanupLoop>>

SendSignalToProcess(id, sig) ==
    /\ mu = "free"
    /\ IF id \notin processes
       THEN /\ Return("SendSignalToProcess", ErrProcessNotFound)
            /\ UNCHANGED os
       ELSE /\ os' = SendSignal(id, sig)
            /\ Return("SendSignalToProcess", SendSignalErr(id))
    /\ UNCHANGED <<bufVars, config, starts, processes, proc, mon, deferred, mu,
                   cancelled, cleanupLoop>>

\* SendInputToProcess without the test of IsRunning
SendInputToProcess_NoStateCheck(id) ==
    /\ mu = "free"
    /\ IF id \notin processes
       THEN Return("SendInputToProcess", ErrProcessNotFound)
       ELSE Return("SendInputToProcess", WriteToStdin(id))
    /\ UNCHANGED <<bufVars, config, starts, processes, proc, os, mon, deferred, mu,
                   cancelled, cleanupLoop>>

SendInputToProcess(id) ==
    /\ mu = "free"
    /\ IF id \notin processes
       THEN Return("SendInputToProcess", ErrProcessNotFound)
       ELSE IF ~IsRunning(proc[id])
       THEN Return("SendInputToProcess", ErrProcessNotRunning)
       ELSE Return("SendInputToProcess", WriteToStdin(id))
    /\ UNCHANGED <<bufVars, config, starts, processes, proc, os, mon, deferred, mu,
                   cancelled, cleanupLoop>>

GetProcess(id) ==
    /\ mu = "free"
    /\ Return("GetProcess", IF id \in processes THEN NoErr ELSE ErrProcessNotFound)
    /\ UNCHANGED <<bufVars, config, starts, processes, proc, os, mon, deferred, mu,
                   cancelled, cleanupLoop>>

\* the ProcessStatus it builds is not kept: ret has the error alone
GetProcessStatus(id) ==
    /\ mu = "free"
    /\ Return("GetProcessStatus", IF id \in processes THEN NoErr ELSE ErrProcessNotFound)
    /\ UNCHANGED <<bufVars, config, starts, processes, proc, os, mon, deferred, mu,
                   cancelled, cleanupLoop>>

\* the streams ReadProcessOutput is called with: the two it knows and another
Streams == {"stdout", "stderr", "stdin"}

\* what ReadProcessOutput returns beside its error, kept in op
ReadResult(data, newPos, hasMore) ==
    [kind |-> "ReadProcessOutput", data |-> data, newPosition |-> newPos,
     hasMore |-> hasMore]

\* ReadProcessOutput that looks at the stream before it looks the id up
ReadProcessOutput_StreamFirst(id, stream, position, maxBytes) ==
    /\ mu = "free"
    /\ IF stream \notin {"stdout", "stderr"}
       THEN /\ Return("ReadProcessOutput", ErrInvalidInput)
            /\ op' = ReadResult(<<>>, 0, FALSE)
       ELSE IF id \notin processes
       THEN /\ Return("ReadProcessOutput", ErrProcessNotFound)
            /\ op' = ReadResult(<<>>, 0, FALSE)
       ELSE LET r == IF stream = "stdout" THEN ReadStdout(buf, position, maxBytes)
                     ELSE ReadStderr(buf, position, maxBytes)
            IN  /\ Return("ReadProcessOutput", NoErr)
                /\ op' = ReadResult(r.data, r.newPosition, r.hasMore)
    /\ UNCHANGED <<buf, written, prev, config, starts, processes, proc, os, mon,
                   deferred, mu, cancelled, cleanupLoop, handles, disk, shell, reader, saving>>

\* ReadProcessOutput that reads stdout for every stream that is not stderr
ReadProcessOutput_DefaultStdout(id, stream, position, maxBytes) ==
    /\ mu = "free"
    /\ IF id \notin processes
       THEN /\ Return("ReadProcessOutput", ErrProcessNotFound)
            /\ op' = ReadResult(<<>>, 0, FALSE)
       ELSE LET r == IF stream = "stderr" THEN ReadStderr(buf, position, maxBytes)
                     ELSE ReadStdout(buf, position, maxBytes)
            IN  /\ Return("ReadProcessOutput", NoErr)
                /\ op' = ReadResult(r.data, r.newPosition, r.hasMore)
    /\ UNCHANGED <<buf, written, prev, config, starts, processes, proc, os, mon,
                   deferred, mu, cancelled, cleanupLoop, handles, disk, shell, reader, saving>>

\* buf is the outputBuf of the Process read
ReadProcessOutput(id, stream, position, maxBytes) ==
    /\ mu = "free"
    /\ IF id \notin processes
       THEN /\ Return("ReadProcessOutput", ErrProcessNotFound)
            /\ op' = ReadResult(<<>>, 0, FALSE)
       ELSE IF stream \notin {"stdout", "stderr"}
       THEN /\ Return("ReadProcessOutput", ErrInvalidInput)
            /\ op' = ReadResult(<<>>, 0, FALSE)
       ELSE LET r == IF stream = "stdout" THEN ReadStdout(buf, position, maxBytes)
                     ELSE ReadStderr(buf, position, maxBytes)
            IN  /\ Return("ReadProcessOutput", NoErr)
                /\ op' = ReadResult(r.data, r.newPosition, r.hasMore)
    /\ UNCHANGED <<buf, written, prev, config, starts, processes, proc, os, mon,
                   deferred, mu, cancelled, cleanupLoop, handles, disk, shell, reader, saving>>

\* MaxProcesses of DefaultRegistryConfig
DefaultMaxProcesses == 1000

\* Go's int, narrowed to IntBits bits, two's complement: MaxInt is the largest
\* int and WrapInt is what + leaves of a sum
MaxInt == 2^(IntBits - 1) - 1
WrapInt(x) == ((x + 2^(IntBits - 1)) % 2^IntBits) - 2^(IntBits - 1)

\* the panic of a slice expression whose bounds are out of range
ErrPanic == "panic: slice bounds out of range"

\* what ListProcesses can be asked to filter by
StateFilters == {"", "all", ProcessStateRunning, ProcessStateTerminated, "stopped"}

\* the orders in which a range over the map r.processes can visit the ids S:
\* Go leaves the iteration order of a map unspecified, and it varies from one
\* range to the next
RangeOrders(S) ==
    {f \in [1..Cardinality(S) -> S] : \A i, j \in DOMAIN f : i # j => f[i] # f[j]}

\* the entries the filter of ListProcesses keeps
Matching(state) ==
    {id \in processes : state = "" \/ state = "all" \/ GetState(proc[id]) = state}

\* the table as a caller can see it: the entries and their states
Table == [id \in processes |-> GetState(proc[id])]

ListResult(state, limit, offset, page, total) ==
    [kind |-> "ListProcesses", state |-> state, limit |-> limit, offset |-> offset,
     page |-> page, total |-> total, table |-> Table]

\* ListProcesses: filter in the order of the range over the map, count, then
\* the slice filtered[start:end], which panics unless 0 <= start <= end; sortBy
\* is not read
ListProcesses(state, limit, offset) ==
    /\ mu = "free"
    /\ \E filtered \in RangeOrders(Matching(state)) :
          LET total == Len(filtered)
              start == IF offset > total THEN total ELSE offset
              sum == WrapInt(start + limit)
              end == IF sum > total THEN total ELSE sum
          IN  IF start < 0 \/ end < start
              THEN /\ Return("ListProcesses", ErrPanic)
                   /\ op' = ListResult(state, limit, offset, <<>>, 0)
              ELSE /\ Return("ListProcesses", NoErr)
                   /\ op' = ListResult(state, limit, offset,
                                       SubSeq(filtered, start + 1, end), total)
    /\ UNCHANGED <<buf, written, prev, config, starts, processes, proc, os, mon,
                   deferred, mu, cancelled, cleanupLoop, handles, disk, shell, reader, saving>>

\* a sweep that takes an entry with an exit code for a Terminated one
cleanupTerminatedProcesses_SweepsExited ==
    /\ cleanupLoop = "select"
    /\ mu = "free"
    /\ LET dead == {id \in processes : GetExitCode(proc[id]) # <<>>}
       IN  /\ proc' = [id \in DOMAIN proc |->
                         IF id \in dead THEN Cleanup(proc[id]) ELSE proc[id]]
           /\ processes' = processes \ dead
    /\ mu' = IF config.PersistenceFile THEN "stuck" ELSE "free"
    /\ UNCHANGED <<bufVars, config, starts, os, mon, deferred, cancelled,
                   cleanupLoop, ret>>

\* a sweep that releases the resources of the Terminated entries and keeps
\* them in the table
cleanupTerminatedProcesses_NoDelete ==
    /\ cleanupLoop = "select"
    /\ mu = "free"
    /\ LET dead == {id \in processes : GetState(proc[id]) = ProcessStateTerminated}
       IN  /\ proc' = [id \in DOMAIN proc |->
                         IF id \in dead THEN Cleanup(proc[id]) ELSE proc[id]]
           /\ processes' = processes
    /\ mu' = IF config.PersistenceFile THEN "stuck" ELSE "free"
    /\ UNCHANGED <<bufVars, config, starts, os, mon, deferred, cancelled,
                   cleanupLoop, ret>>

\* a tick of cleanupLoop. With a PersistenceFile the sweep ends in saveToDisk,
\* which waits for the read lock of r.mu while the sweep holds the write lock
cleanupTerminatedProcesses ==
    /\ cleanupLoop = "select"
    /\ mu = "free"
    /\ LET dead == {id \in processes : GetState(proc[id]) = ProcessStateTerminated}
       IN  /\ proc' = [id \in DOMAIN proc |->
                         IF id \in dead THEN Cleanup(proc[id]) ELSE proc[id]]
           /\ processes' = processes \ dead
    /\ mu' = IF config.PersistenceFile THEN "stuck" ELSE "free"
    /\ UNCHANGED <<bufVars, config, starts, os, mon, deferred, cancelled,
                   cleanupLoop, ret>>

\* cleanupLoop takes the r.ctx.Done() case of its select
cleanupLoopReturn ==
    /\ cleanupLoop = "select"
    /\ cancelled
    /\ cleanupLoop' = "returned"
    /\ UNCHANGED <<bufVars, config, starts, processes, proc, os, mon, deferred, mu,
                   cancelled, ret>>

\* Shutdown that gives up at a SendSignal that fails
Shutdown_StopsAtFailedSignal ==
    /\ cancelled' = TRUE
    /\ IF mu = "free"
       THEN /\ IF \E id \in processes : IsRunning(proc[id]) /\ SendSignalErr(id) # NoErr
               THEN UNCHANGED <<os, proc>>
               ELSE /\ os' = [id \in DOMAIN os |->
                                IF id \in processes /\ IsRunning(proc[id])
                                THEN SendSignal(id, SIGTERM)[id] ELSE os[id]]
                    /\ proc' = [id \in DOMAIN proc |->
                                  IF id \in processes THEN Cleanup(proc[id]) ELSE proc[id]]
            /\ IF config.PersistenceFile
               THEN mu' = "stuck" /\ UNCHANGED ret
               ELSE mu' = "free" /\ Return("Shutdown", NoErr)
       ELSE UNCHANGED <<os, proc, mu, ret>>
    /\ UNCHANGED <<bufVars, config, starts, processes, mon, deferred, cleanupLoop>>

\* r.cancel(), then under the write lock of r.mu: SIGTERM to every running
\* process, Cleanup of every process, and saveToDisk with a PersistenceFile,
\* which waits for the read lock of r.mu, so that Shutdown does not return
Shutdown ==
    /\ cancelled' = TRUE
    /\ IF mu = "free"
       THEN /\ os' = [id \in DOMAIN os |->
                        IF id \in processes /\ IsRunning(proc[id])
                        THEN SendSignal(id, SIGTERM)[id] ELSE os[id]]
            /\ proc' = [id \in DOMAIN proc |->
                          IF id \in processes THEN Cleanup(proc[id]) ELSE proc[id]]
            /\ IF config.PersistenceFile
               THEN mu' = "stuck" /\ UNCHANGED ret
               ELSE mu' = "free" /\ Return("Shutdown", NoErr)
       ELSE UNCHANGED <<os, proc, mu, ret>>
    /\ UNCHANGED <<bufVars, config, starts, processes, mon, deferred, cleanupLoop>>

(***************************************************************************)
(* ExecuteShell (src/internal/server.go): one call, its command and the    *)
(* goroutine and the timer its synchronous path waits for.                 *)
(***************************************************************************)
\* exit statuses a command can end with by itself
ExitCodes == {0, 1}
\* ExitCode() of the ExitError of a command ended by a signal
SignalledExit == 0 - 1
\* no error returned by ExecuteShell
NoShellErr == "nil"
\* no ExecuteShellOutput yet
NoResult == [kind |-> "none"]

\* before the call: no command, no done channel, no timer
NoShell ==
    [pc |-> "idle", args |-> [kind |-> "none"], cmd |-> "none", status |-> 0,
     ctx |-> FALSE, cancel |-> FALSE, done |-> <<>>, waited |-> FALSE,
     timer |-> "none", first |-> "none", result |-> NoResult]

\* ExecuteShellArgs: Command (empty or not), Async, Timeout in seconds
ShellArgs == [Command : {"", "cmd"}, Async : BOOLEAN, Timeout : {0 - 1, 0, 1}]

\* the error and output ExecuteShell returns without having run a command
ShellRefused(err) ==
    [kind |-> "error", err |-> err]

\* the result of a call that reached the end of ExecuteShell
ShellOutput(timedOut, exitCode) ==
    [kind |-> "output", err |-> NoShellErr, TimedOut |-> timedOut,
     ExitCode |-> exitCode, IsError |-> (timedOut \/ exitCode # 0)]

\* ExecuteShell up to the point where it waits: the checks of its arguments,
\* the asynchronous path whole, and the start of the synchronous command
ExecuteShell(args, spawn) ==
    /\ shell.pc = "idle"
    /\ shell' =
          IF args.Command = ""
            THEN [shell EXCEPT !.pc = "returned", !.args = args,
                               !.result = ShellRefused("command cannot be empty")]
          ELSE IF args.Timeout < 0
            THEN [shell EXCEPT !.pc = "returned", !.args = args,
                               !.result = ShellRefused("timeout cannot be negative")]
          ELSE IF args.Async /\ args.Timeout > 0
            THEN [shell EXCEPT !.pc = "returned", !.args = args,
                               !.result = ShellRefused("timeout is not supported for asynchronous execution")]
          ELSE IF ~spawn
            THEN [shell EXCEPT !.pc = "returned", !.args = args,
                               !.cancel = ~args.Async,
                               !.result = ShellRefused("failed to start command")]
          ELSE IF args.Async
            THEN [shell EXCEPT !.pc = "returned", !.args = args, !.cmd = "alive",
                               !.result = ShellOutput(FALSE, 0)]
          ELSE [shell EXCEPT !.pc = "select", !.args = args, !.cmd = "alive",
                             !.timer = IF args.Timeout > 0 THEN "armed" ELSE "none"]
    /\ UNCHANGED notShell

\* the command ends by itself with an exit status
ShellCmdExit(status) ==
    /\ shell.cmd = "alive"
    /\ shell' = [shell EXCEPT !.cmd = "exited", !.status = status]
    /\ UNCHANGED notShell

\* the ctx of the request is cancelled: exec kills the command started with
\* CommandContext, if it still runs
ShellCtxDone ==
    /\ shell.pc # "idle"
    /\ ~shell.ctx
    /\ shell' = [shell EXCEPT !.ctx = TRUE,
                              !.cmd = IF @ = "alive" THEN "kill" ELSE @]
    /\ UNCHANGED notShell

\* the SIGKILL sent to the command ends it
ShellCmdKilled ==
    /\ shell.cmd = "kill"
    /\ shell' = [shell EXCEPT !.cmd = "killed", !.status = SignalledExit]
    /\ UNCHANGED notShell

\* the error cmd.Wait() returns: an ExitError unless the status is 0, then
\* the error of the context if it ended, else nil
ShellWaitErr ==
    IF shell.status # 0 THEN [kind |-> "ExitError", ExitCode |-> shell.status]
    ELSE IF shell.ctx \/ shell.cancel THEN [kind |-> "ctx"]
    ELSE [kind |-> "nil"]

\* the goroutine of ExecuteShell: cmd.Wait() returns and its error is put in
\* the done channel, which has room for it
ShellWaitReturns ==
    /\ shell.cmd \in {"exited", "killed"}
    /\ ~shell.args.Async
    /\ ~shell.waited
    /\ shell' = [shell EXCEPT !.waited = TRUE, !.done = <<ShellWaitErr>>,
                              !.first = IF @ = "none" THEN "done" ELSE @]
    /\ UNCHANGED notShell

\* the timer of time.After fires
ShellTimerFires ==
    /\ shell.timer = "armed"
    /\ shell' = [shell EXCEPT !.timer = "fired",
                              !.first = IF @ = "none" THEN "timer" ELSE @]
    /\ UNCHANGED notShell

\* exitCode as ExecuteShell derives it from cmdErr
ShellExitCode(cmdErr) ==
    IF cmdErr.kind = "ExitError" THEN cmdErr.ExitCode ELSE 0

\* the communications of the select (or of the receive without a timeout) that
\* can proceed
ShellReady ==
    {c \in {"done", "timer"} :
        \/ c = "done" /\ shell.done # <<>>
        \/ c = "timer" /\ shell.timer = "fired"}

\* ExecuteShell whose timeout case neither cancels nor kills the command
ShellSelect_NoKill(case) ==
    /\ shell.pc = "select"
    /\ case \in ShellReady
    /\ shell' =
          IF case = "done"
            THEN [shell EXCEPT !.pc = "returned", !.done = <<>>, !.cancel = TRUE,
                               !.result = ShellOutput(FALSE, ShellExitCode(shell.done[1]))
                                              @@ [ready |-> ShellReady]]
          ELSE [shell EXCEPT !.pc = "returned",
                             !.result = ShellOutput(TRUE, 0) @@ [ready |-> ShellReady]]
    /\ UNCHANGED notShell

\* ExecuteShell from its select to its return: one of the cases that can
\* proceed is taken, the result is built, the deferred cancel runs
ShellSelect(case) ==
    /\ shell.pc = "select"
    /\ case \in ShellReady
    /\ shell' =
          IF case = "done"
            THEN [shell EXCEPT !.pc = "returned", !.done = <<>>, !.cancel = TRUE,
                               !.result = ShellOutput(FALSE, ShellExitCode(shell.done[1]))
                                              @@ [ready |-> ShellReady]]
          ELSE [shell EXCEPT !.pc = "returned", !.cancel = TRUE,
                             !.cmd = IF @ = "alive" THEN "kill" ELSE @,
                             !.result = ShellOutput(TRUE, 0) @@ [ready |-> ShellReady]]
    /\ UNCHANGED notShell

\* the OutputBuffer under test is not used by the Registry specifications
BufIdle ==
    /\ buf = NewOutputBuffer(0)
    /\ written = [stdout |-> <<>>, stderr |-> <<>>]
    /\ op = [kind |-> "none"]
    /\ prev = [kind |-> "none"]

\* the handles a Process can hold
HandleNames == {"stdin", "stdout", "stderr", "signalChan"}

\* the handles of a Process that StartProcess has just returned: nothing
\* closed, no WriteToStdin under way, a captureOutput goroutine scanning each
\* output pipe if there are any
NewHandles(captureOutput) ==
    [closes |-> [h \in HandleNames |-> <<>>],
     used |-> {},
     writer |-> "idle",
     capture |-> [stream \in {"stdout", "stderr"} |->
                    IF captureOutput THEN "scan" ELSE "none"],
     cleanups |-> 0]

\* NewRegistry, without a persisted table to load; persist: PersistenceFile # ""
NewRegistry(maxProcesses, n, persist) ==
    /\ handles = NewHandles(FALSE)
    /\ disk = [kind |-> "missing"]
    /\ shell = NoShell
    /\ reader = NoReader
    /\ saving = NoSaving
    /\ config = [MaxProcesses |-> maxProcesses, PersistenceFile |-> persist]
    /\ starts = n
    /\ processes = {}
    /\ proc = <<>>
    /\ os = <<>>
    /\ mon = <<>>
    /\ deferred = <<>>
    /\ mu = "free"
    /\ cancelled = FALSE
    /\ cleanupLoop = "select"
    /\ ret = [call |-> "none", err |-> NoErr]

\* a Registry without a PersistenceFile, as DefaultRegistryConfig has it
Init ==
    /\ \E maxProcesses \in 1..TestMaxProcesses : NewRegistry(maxProcesses, MaxStarts, FALSE)
    /\ BufIdle

FairInit ==
    /\ \E maxProcesses \in 1..TestMaxProcesses : NewRegistry(maxProcesses, FairStarts, FALSE)
    /\ BufIdle

\* a Registry with a PersistenceFile
PersistInit ==
    /\ \E maxProcesses \in 1..TestMaxProcesses : NewRegistry(maxProcesses, MaxStarts, TRUE)
    /\ BufIdle

\* the steps of a Registry without a PersistenceFile: its monitors end at
\* SetState, registry.go line 211 being false
Next ==
    \/ \E capture \in BOOLEAN, spawn \in BOOLEAN : StartProcess(capture, spawn)
    \/ \E id \in 1..starts : CancelCtx(id)
    \/ \E id \in 1..starts : OsExit(id)
    \/ \E id \in 1..starts : OsTerm(id)
    \/ \E id \in 1..starts : OsKill(id)
    \/ \E id \in 1..starts : MonitorWait(id)
    \/ \E id \in 1..starts : MonitorSetState(id)
    \/ \E id \in 1..starts, force \in BOOLEAN, gracePeriod \in {0, 1} :
          TerminateProcess(id, force, gracePeriod)
    \/ \E id \in 1..starts : DeferredKill(id)
    \/ \E id \in 1..starts, sig \in Signals : SendSignalToProcess(id, sig)
    \/ \E id \in 1..starts : SendInputToProcess(id)
    \/ cleanupTerminatedProcesses
    \/ cleanupLoopReturn
    \/ Shutdown

Spec == Init /\ [][Next]_vars

\* the steps of a Registry with a PersistenceFile: a monitor goes on to saveToDisk
PersistNext ==
    \/ Next
    \/ \E id \in 1..starts : MonitorSave(id)

SpecPersist == PersistInit /\ [][PersistNext]_vars

\* the monitor goroutines and the OS are scheduled: a monitor that can step
\* does, a pending SIGKILL takes effect
Fairness ==
    \A id \in 1..FairStarts :
        /\ WF_vars(MonitorWait(id))
        /\ WF_vars(MonitorSetState(id))
        /\ WF_vars(OsKill(id))

\* time.Sleep(gracePeriod) returns: a grace period elapses
GraceFairness ==
    \A id \in 1..FairStarts : WF_vars(DeferredKill(id))

\* no assumption on the grace-period goroutines
SpecFair == FairInit /\ [][Next]_vars /\ Fairness

SpecGrace == FairInit /\ [][Next]_vars /\ Fairness /\ GraceFairness

(***************************************************************************)
(* The Registry with the calls that read it, called with the ids it has    *)
(* issued and with one it has not. No output is captured here: the         *)
(* outputBuf of every Process is empty, as buf is.                         *)
(***************************************************************************)
ReadInit ==
    /\ \E maxProcesses \in 1..TestMaxProcesses : NewRegistry(maxProcesses, ReadStarts, FALSE)
    /\ BufIdle

ReadNext ==
    \/ Next
    \/ \E id \in 1..(starts + 1) : GetProcess(id)
    \/ \E id \in 1..(starts + 1) : GetProcessStatus(id)
    \/ \E id \in 1..(starts + 1), stream \in Streams :
          ReadProcessOutput(id, stream, 0, 1)
    \/ \E id \in 1..(starts + 1) : SendInputToProcess(id)
    \/ \E id \in 1..(starts + 1), sig \in Signals : SendSignalToProcess(id, sig)
    \/ \E id \in 1..(starts + 1), force \in BOOLEAN, gracePeriod \in {0, 1} :
          TerminateProcess(id, force, gracePeriod)

SpecRead == ReadInit /\ [][ReadNext]_vars

(***************************************************************************)
(* One Process and its handles: the callers of Cleanup, WriteToStdin and   *)
(* SendSignal, its two captureOutput goroutines and its monitor, step by   *)
(* step.  A Close is recorded on the handle with the name of its caller.   *)
(***************************************************************************)
\* the error of a Write on a pipe that was closed
ErrClosed == "file already closed"

\* Close called on the handles hs by who
CloseAll(hs, who) ==
    [handles EXCEPT !.closes = [h \in HandleNames |->
                                  IF h \in hs THEN Append(@[h], who) ELSE @[h]]]

\* Process.Cleanup(), called by a sweep, by Shutdown or by the holder of the
\* Process: under p.mu, each handle that is not nil is closed and set to nil
CallCleanup(id) ==
    /\ id \in DOMAIN proc
    /\ handles.cleanups < MaxCleanups
    /\ proc' = [proc EXCEPT ![id] = Cleanup(@)]
    /\ handles' = [CloseAll({h \in HandleNames : proc[id][h] # "nil"}, "Cleanup")
                       EXCEPT !.cleanups = @ + 1]
    /\ Return("Cleanup", NoErr)
    /\ UNCHANGED <<buf, written, op, prev, disk, shell, reader, saving, config, starts, processes, os, mon,
                   deferred, mu, cancelled, cleanupLoop>>

\* monitorProcess, cmd.Wait() returns as in MonitorWait, having closed the
\* parent's ends of the pipes it made: stdin, and stdout and stderr if captured
CmdWait(id) ==
    /\ id \in DOMAIN proc
    /\ mon[id] = "wait"
    /\ os[id] \in Exited
    /\ LET code == ExitStatus(os[id])
           err == IF code # 0 THEN "ExitError"
                  ELSE IF os[id] = "exit0ctx" THEN "ctx" ELSE "nil"
       IN  proc' = [proc EXCEPT ![id] =
                       IF err = "ExitError" THEN SetExitCode(@, code)
                       ELSE IF err = "nil" THEN SetExitCode(@, 0)
                       ELSE @]
    /\ mon' = [mon EXCEPT ![id] = "setState"]
    /\ os' = [os EXCEPT ![id] = "reaped"]
    /\ handles' = CloseAll({"stdin"} \cup {h \in {"stdout", "stderr"} :
                                             handles.capture[h] # "none"}, "Wait")
    /\ UNCHANGED <<buf, written, op, prev, disk, shell, reader, saving, config, starts, processes, deferred, mu,
                   cancelled, cleanupLoop, ret>>

\* captureOutput, scanner.Scan() returns false: at the end of the output of a
\* process that exited, or because the pipe is closed, in which case the Read
\* that fails was either under way when Close was called or issued after it
captureOutputEnds(id, stream) ==
    /\ id \in DOMAIN proc
    /\ handles.capture[stream] = "scan"
    /\ \/ /\ handles.closes[stream] = <<>>
          /\ os[id] \in Exited
          /\ handles' = [handles EXCEPT !.capture[stream] = "close"]
       \/ /\ handles.closes[stream] # <<>>
          /\ \E issuedAfter \in BOOLEAN :
                handles' = [handles EXCEPT
                              !.capture[stream] = "close",
                              !.used = IF issuedAfter THEN @ \cup {stream} ELSE @]
    /\ UNCHANGED <<buf, written, op, prev, disk, shell, reader, saving, config, starts, processes, proc, os, mon,
                   deferred, mu, cancelled, cleanupLoop, ret>>

\* captureOutput returns: the deferred reader.Close()
captureOutputClose(id, stream) ==
    /\ id \in DOMAIN proc
    /\ handles.capture[stream] = "close"
    /\ handles' = [CloseAll({stream}, "captureOutput")
                       EXCEPT !.capture[stream] = "returned"]
    /\ UNCHANGED <<buf, written, op, prev, disk, shell, reader, saving, config, starts, processes, proc, os, mon,
                   deferred, mu, cancelled, cleanupLoop, ret>>

\* WriteToStdin, first half: p.stdin is read under the read lock of p.mu, and
\* a nil handle is refused
WriteToStdinBegin(id) ==
    /\ id \in DOMAIN proc
    /\ handles.writer = "idle"
    /\ IF proc[id].stdin = "nil"
       THEN Return("WriteToStdin", ErrProcessNotRunning) /\ UNCHANGED handles
       ELSE handles' = [handles EXCEPT !.writer = "holds"] /\ UNCHANGED ret
    /\ UNCHANGED <<buf, written, op, prev, disk, shell, reader, saving, config, starts, processes, proc, os, mon,
                   deferred, mu, cancelled, cleanupLoop>>

\* WriteToStdin, second half: stdin.Write(data) on the handle it read
WriteToStdinWrite(id) ==
    /\ id \in DOMAIN proc
    /\ handles.writer = "holds"
    /\ IF handles.closes["stdin"] # <<>>
       THEN /\ handles' = [handles EXCEPT !.writer = "idle", !.used = @ \cup {"stdin"}]
            /\ Return("WriteToStdin", ErrClosed)
       ELSE /\ handles' = [handles EXCEPT !.writer = "idle"]
            /\ Return("WriteToStdin", IF os[id] \in Exited THEN ErrWrite ELSE NoErr)
    /\ UNCHANGED <<buf, written, op, prev, disk, shell, reader, saving, config, starts, processes, proc, os, mon,
                   deferred, mu, cancelled, cleanupLoop>>

\* Process.SendSignal(sig) called by the holder of the Process
CallSendSignal(id, sig) ==
    /\ id \in DOMAIN proc
    /\ os' = SendSignal(id, sig)
    /\ Return("SendSignal", SendSignalErr(id))
    /\ UNCHANGED <<buf, written, op, prev, disk, shell, reader, saving, config, starts, processes, proc, mon,
                   deferred, mu, cancelled, cleanupLoop, handles>>

\* the Process that StartProcess has just put in the table, its goroutines
\* started
CleanupInit ==
    /\ BufIdle
    /\ disk = [kind |-> "missing"]
    /\ shell = NoShell
    /\ reader = NoReader
    /\ saving = NoSaving
    /\ config = [MaxProcesses |-> TestMaxProcesses, PersistenceFile |-> FALSE]
    /\ starts = 1
    /\ processes = {1}
    /\ os = <<"alive">>
    /\ mon = <<"wait">>
    /\ deferred = <<0>>
    /\ mu = "free"
    /\ cancelled = FALSE
    /\ cleanupLoop = "select"
    /\ ret = [call |-> "StartProcess", err |-> NoErr]
    /\ \E capture \in BOOLEAN :
          /\ proc = <<NewProcess(capture)>>
          /\ handles = NewHandles(capture)

CleanupNext ==
    \/ OsExit(1)
    \/ OsTerm(1)
    \/ OsKill(1)
    \/ CmdWait(1)
    \/ MonitorSetState(1)
    \/ CallCleanup(1)
    \/ \E stream \in {"stdout", "stderr"} : captureOutputEnds(1, stream)
    \/ \E stream \in {"stdout", "stderr"} : captureOutputClose(1, stream)
    \/ WriteToStdinBegin(1)
    \/ WriteToStdinWrite(1)
    \/ \E sig \in Signals : CallSendSignal(1, sig)

SpecCleanup == CleanupInit /\ [][CleanupNext]_vars

(***************************************************************************)
(* One Process started with captureOutput, its child writing to the two    *)
(* output pipes, and the two captureOutput goroutines scanning them into   *)
(* buf, its outputBuf.  handles carries, per stream, the bytes the child   *)
(* has written (emitted), those still in the pipe, and those the Scanner   *)
(* has read and not yet returned as a line (scanned).                      *)
(***************************************************************************)
\* most bytes the child writes to its two pipes together
MaxEmit == 3
\* longest slice the child writes at once
MaxChunk == 2

\* the bytes the child writes: a letter, a carriage return, a newline
PipeBytes == {"a", "\r", "\n"}

OutputStreams == {"stdout", "stderr"}

\* the handles of StartProcess with captureOutput, the pipes empty
NewPipes ==
    NewHandles(TRUE) @@ [emitted |-> [s \in OutputStreams |-> <<>>],
                         pipe |-> [s \in OutputStreams |-> <<>>],
                         scanned |-> [s \in OutputStreams |-> <<>>]]

\* bytes.IndexByte(data, '\n'), counted from 1; 0 when there is none
IndexNewline(data) ==
    IF \E i \in 1..Len(data) : data[i] = "\n"
    THEN CHOOSE i \in 1..Len(data) :
            data[i] = "\n" /\ \A j \in 1..(i - 1) : data[j] # "\n"
    ELSE 0

\* dropCR of bufio: a trailing carriage return is not part of the line
dropCR(data) ==
    IF Len(data) > 0 /\ data[Len(data)] = "\r" THEN SubSeq(data, 1, Len(data) - 1)
    ELSE data

\* bufio.ScanLines: how far to advance and the token, <<>> standing for no
\* token and <<line>> for a line
ScanLines(data, atEOF) ==
    IF atEOF /\ Len(data) = 0 THEN [advance |-> 0, token |-> <<>>]
    ELSE IF IndexNewline(data) > 0
    THEN [advance |-> IndexNewline(data),
          token |-> <<dropCR(SubSeq(data, 1, IndexNewline(data) - 1))>>]
    ELSE IF atEOF THEN [advance |-> Len(data), token |-> <<dropCR(data)>>]
    ELSE [advance |-> 0, token |-> <<>>]

\* the child writes data to one of its output pipes
childWrite(id, stream, data) ==
    /\ id \in DOMAIN proc
    /\ os[id] \in {"alive", "term", "kill"}
    /\ handles.capture[stream] # "none"
    /\ handles.closes[stream] = <<>>
    /\ Len(handles.emitted.stdout) + Len(handles.emitted.stderr) + Len(data) <= MaxEmit
    /\ handles' = [handles EXCEPT !.emitted[stream] = @ \o data,
                                  !.pipe[stream] = @ \o data]
    /\ UNCHANGED <<buf, written, op, prev, disk, shell, reader, saving, config, starts, processes, proc,
                   os, mon, deferred, mu, cancelled, cleanupLoop, ret>>

\* captureOutput, scanner.Scan() needs more data: a Read on the pipe, which
\* is open, returns n of the bytes that are in it
captureOutputRead(id, stream, n) ==
    /\ id \in DOMAIN proc
    /\ handles.capture[stream] = "scan"
    /\ handles.closes[stream] = <<>>
    /\ ScanLines(handles.scanned[stream], FALSE).token = <<>>
    /\ n \in 1..Len(handles.pipe[stream])
    /\ handles' = [handles EXCEPT
                     !.scanned[stream] = @ \o SubSeq(handles.pipe[stream], 1, n),
                     !.pipe[stream] = DropFront(@, n)]
    /\ UNCHANGED <<buf, written, op, prev, disk, shell, reader, saving, config, starts, processes, proc,
                   os, mon, deferred, mu, cancelled, cleanupLoop, ret>>

\* captureOutput that appends the lines of both pipes to the stdout buffer
captureOutputAppend_AlwaysStdout(ob, isStdout, token) ==
    WriteStdout(ob, token \o <<"\n">>)

\* what one turn of the loop of captureOutput does with the token of a Scan:
\* the newline is put back and the line goes to the buffer of isStdout
captureOutputAppend(ob, isStdout, token) ==
    IF isStdout THEN WriteStdout(ob, token \o <<"\n">>)
    ELSE WriteStderr(ob, token \o <<"\n">>)

\* the stream whose slice of ob has changed between ob and after, if one has
AppendedTo(ob, after) ==
    {s \in OutputStreams :
        IF s = "stdout"
        THEN <<ob.stdout, ob.stdoutPos>> # <<after.stdout, after.stdoutPos>>
        ELSE <<ob.stderr, ob.stderrPos>> # <<after.stderr, after.stderrPos>>}

\* written, after the bytes of line were handed to the buffers as after shows
Handed(ob, after, line) ==
    [s \in {"stdout", "stderr"} |->
        IF s \in AppendedTo(ob, after) THEN written[s] \o line ELSE written[s]]

\* captureOutput, scanner.Scan() returns a line that the Scanner holds
captureOutputLine(id, stream) ==
    /\ id \in DOMAIN proc
    /\ handles.capture[stream] = "scan"
    /\ LET scan == ScanLines(handles.scanned[stream], FALSE)
           after == captureOutputAppend(buf, stream = "stdout", scan.token[1])
       IN  /\ scan.token # <<>>
           /\ buf' = after
           /\ written' = Handed(buf, after, scan.token[1] \o <<"\n">>)
           /\ handles' = [handles EXCEPT !.scanned[stream] = DropFront(@, scan.advance)]
    /\ UNCHANGED <<op, prev, disk, shell, reader, saving, config, starts, processes, proc,
                   os, mon, deferred, mu, cancelled, cleanupLoop, ret>>

\* captureOutput, the Read of the Scanner returns io.EOF (the pipe is empty
\* and its writer has exited) or fails because the pipe was closed: what the
\* Scanner still holds is its last token, and the loop ends
captureOutputLast(id, stream) ==
    /\ id \in DOMAIN proc
    /\ handles.capture[stream] = "scan"
    /\ ScanLines(handles.scanned[stream], FALSE).token = <<>>
    /\ \/ handles.closes[stream] # <<>>
       \/ handles.pipe[stream] = <<>> /\ os[id] \in Exited \cup {"reaped"}
    /\ LET scan == ScanLines(handles.scanned[stream], TRUE)
           after == IF scan.token = <<>> THEN buf
                    ELSE captureOutputAppend(buf, stream = "stdout", scan.token[1])
       IN  /\ buf' = after
           /\ written' = IF scan.token = <<>> THEN written
                         ELSE Handed(buf, after, scan.token[1] \o <<"\n">>)
    /\ handles' = [handles EXCEPT !.scanned[stream] = <<>>,
                                  !.capture[stream] = "close"]
    /\ UNCHANGED <<op, prev, disk, shell, reader, saving, config, starts, processes, proc,
                   os, mon, deferred, mu, cancelled, cleanupLoop, ret>>

\* the Process that StartProcess with captureOutput has just put in the table
PipeInit ==
    /\ \E maxSize \in {MaxChunk, MaxEmit + MaxCap} : buf = NewOutputBuffer(maxSize)
    /\ written = [stdout |-> <<>>, stderr |-> <<>>]
    /\ op = [kind |-> "none"]
    /\ prev = [kind |-> "none"]
    /\ disk = [kind |-> "missing"]
    /\ shell = NoShell
    /\ reader = NoReader
    /\ saving = NoSaving
    /\ config = [MaxProcesses |-> TestMaxProcesses, PersistenceFile |-> FALSE]
    /\ starts = 1
    /\ processes = {1}
    /\ proc = <<NewProcess(TRUE)>>
    /\ os = <<"alive">>
    /\ mon = <<"wait">>
    /\ deferred = <<0>>
    /\ mu = "free"
    /\ cancelled = FALSE
    /\ cleanupLoop = "select"
    /\ ret = [call |-> "StartProcess", err |-> NoErr]
    /\ handles = NewPipes

PipeNext ==
    \/ \E stream \in OutputStreams, data \in SeqsOf(PipeBytes, 1, MaxChunk) :
          childWrite(1, stream, data)
    \/ OsExit(1)
    \/ CmdWait(1)
    \/ MonitorSetState(1)
    \/ \E stream \in OutputStreams, n \in 1..MaxEmit : captureOutputRead(1, stream, n)
    \/ \E stream \in OutputStreams : captureOutputLine(1, stream)
    \/ \E stream \in OutputStreams : captureOutputLast(1, stream)
    \/ \E stream \in OutputStreams : captureOutputClose(1, stream)

\* the goroutines are scheduled: the monitor and the capture workers go on
\* when they can
PipeFairness ==
    /\ WF_vars(CmdWait(1))
    /\ WF_vars(MonitorSetState(1))
    /\ \A stream \in OutputStreams :
          /\ WF_vars(\E n \in 1..MaxEmit : captureOutputRead(1, stream, n))
          /\ WF_vars(captureOutputLine(1, stream))
          /\ WF_vars(captureOutputLast(1, stream))
          /\ WF_vars(captureOutputClose(1, stream))

SpecPipe == PipeInit /\ [][PipeNext]_vars /\ PipeFairness

(***************************************************************************)
(* A Registry constructed with a PersistenceFile: NewRegistry has run      *)
(* loadFromDisk on whatever the file held.  The ids of a snapshot are      *)
(* taken to be 1..n.  The OS process behind a loaded entry is "gone" when  *)
(* no process had its pid at the time of the load, "alive" otherwise.      *)
(***************************************************************************)
\* what a file can hold for an entry: the state and the exit code, null or not
SnapshotEntries ==
    [state : {ProcessStateRunning, ProcessStateTerminated},
     exit_code : {<<>>, <<0>>, <<1>>}]

\* the files NewRegistry can find at PersistenceFile
Files ==
    {[kind |-> k] : k \in {"missing", "unreadable", "invalid"}}
    \cup {[kind |-> "snapshot", data |-> d] :
            d \in UNION {[1..n -> SnapshotEntries] : n \in 0..MaxLoaded}}

\* loadFromDisk that takes the state of the snapshot as it is
loadFromDisk_NoRevalidation(file, live) ==
    IF file.kind # "snapshot" THEN <<>>
    ELSE [id \in DOMAIN file.data |->
            [State |-> file.data[id].state,
             ExitCode |-> file.data[id].exit_code,
             process |-> "nil",
             stdin |-> "nil",
             stdout |-> "nil",
             stderr |-> "nil",
             signalChan |-> "open"]]

\* loadFromDisk: the Process objects it puts in the table, none when the file
\* cannot be opened or decoded; live[id]: a process with the pid of the entry
\* is found running
loadFromDisk(file, live) ==
    IF file.kind # "snapshot" THEN <<>>
    ELSE [id \in DOMAIN file.data |->
            [State |-> IF file.data[id].state = ProcessStateRunning /\ ~live[id]
                       THEN ProcessStateTerminated
                       ELSE file.data[id].state,
             ExitCode |-> file.data[id].exit_code,
             process |-> "nil",
             stdin |-> "nil",
             stdout |-> "nil",
             stderr |-> "nil",
             signalChan |-> "open"]]

\* NewRegistry with a PersistenceFile
LoadInit ==
    /\ BufIdle
    /\ handles = NewHandles(FALSE)
    /\ shell = NoShell
    /\ reader = NoReader
    /\ saving = NoSaving
    /\ config = [MaxProcesses |-> DefaultMaxProcesses, PersistenceFile |-> TRUE]
    /\ \E file \in Files, live \in [1..MaxLoaded -> BOOLEAN] :
          /\ disk = file
          /\ proc = loadFromDisk(file, live)
          /\ os = [id \in DOMAIN proc |-> IF live[id] THEN "alive" ELSE "gone"]
    /\ processes = DOMAIN proc
    /\ starts = Len(proc)
    /\ mon = [id \in DOMAIN proc |-> "none"]
    /\ deferred = [id \in DOMAIN proc |-> 0]
    /\ mu = "free"
    /\ cancelled = FALSE
    /\ cleanupLoop = "select"
    /\ ret = [call |-> "NewRegistry", err |-> NoErr]

LoadNext ==
    \/ \E id \in 1..starts : OsExit(id)
    \/ \E id \in 1..(starts + 1), sig \in Signals : SendSignalToProcess(id, sig)
    \/ \E id \in 1..(starts + 1) : SendInputToProcess(id)
    \/ \E id \in 1..(starts + 1), force \in BOOLEAN, gracePeriod \in {0, 1} :
          TerminateProcess(id, force, gracePeriod)
    \/ \E id \in 1..(starts + 1), stream \in Streams : ReadProcessOutput(id, stream, 0, 1)
    \/ \E id \in 1..(starts + 1) : GetProcessStatus(id)
    \/ cleanupTerminatedProcesses

SpecLoad == LoadInit /\ [][LoadNext]_vars

(***************************************************************************)
(* A Registry constructed on the file a Registry of another config left:   *)
(* MaxProcesses is the caller's, the file holds what it holds.  The client *)
(* then starts a process.                                                  *)
(***************************************************************************)
RestartInit ==
    /\ BufIdle
    /\ handles = NewHandles(FALSE)
    /\ shell = NoShell
    /\ reader = NoReader
    /\ saving = NoSaving
    /\ \E maxProcesses \in 1..TestMaxProcesses :
          config = [MaxProcesses |-> maxProcesses, PersistenceFile |-> TRUE]
    /\ \E file \in Files, live \in [1..MaxLoaded -> BOOLEAN] :
          /\ disk = file
          /\ proc = loadFromDisk(file, live)
          /\ os = [id \in DOMAIN proc |-> IF live[id] THEN "alive" ELSE "gone"]
    /\ processes = DOMAIN proc
    /\ starts = Len(proc) + 1
    /\ mon = [id \in DOMAIN proc |-> "none"]
    /\ deferred = [id \in DOMAIN proc |-> 0]
    /\ mu = "free"
    /\ cancelled = FALSE
    /\ cleanupLoop = "select"
    /\ ret = [call |-> "NewRegistry", err |-> NoErr]

RestartNext ==
    \/ \E spawn \in BOOLEAN : StartProcess(TRUE, spawn)
    \/ \E id \in 1..starts : OsExit(id)
    \/ \E id \in 1..starts : MonitorWait(id)
    \/ \E id \in 1..starts : MonitorSetState(id)
    \/ \E id \in 1..starts : MonitorSave(id)
    \/ \E id \in 1..starts : GetProcessStatus(id)

SpecRestart == RestartInit /\ [][RestartNext]_vars

(***************************************************************************)
(* GetProcessStatus step by step, beside the monitors: GetProcess under    *)
(* r.mu, then proc.GetState() and proc.GetExitCode(), each under its own   *)
(* hold of the mutex of the Process.  op holds the status being built and  *)
(* then the status returned.                                               *)
(***************************************************************************)
\* GetProcess, and the fields up to State: proc.GetState()
GetProcessStatusState(id) ==
    /\ mu = "free"
    /\ op.kind # "status"
    /\ IF id \notin processes
       THEN /\ Return("GetProcessStatus", ErrProcessNotFound)
            /\ op' = [kind |-> "GetProcessStatus", id |-> id, status |-> <<>>]
       ELSE /\ op' = [kind |-> "status", id |-> id, State |-> GetState(proc[id])]
            /\ UNCHANGED ret
    /\ UNCHANGED <<buf, written, prev, handles, disk, shell, reader, saving, config, starts,
                   processes, proc, os, mon, deferred, mu, cancelled, cleanupLoop>>

\* ExitCode: proc.GetExitCode(), and the return of the status
GetProcessStatusExitCode ==
    /\ op.kind = "status"
    /\ op' = [kind |-> "GetProcessStatus", id |-> op.id,
              status |-> <<[State |-> op.State,
                            ExitCode |-> GetExitCode(proc[op.id])]>>]
    /\ Return("GetProcessStatus", NoErr)
    /\ UNCHANGED <<buf, written, prev, handles, disk, shell, reader, saving, config, starts,
                   processes, proc, os, mon, deferred, mu, cancelled, cleanupLoop>>

StatusInit == NewRegistry(TestMaxProcesses, MaxStarts, FALSE) /\ BufIdle

StatusNext ==
    \/ \E spawn \in BOOLEAN : StartProcess(TRUE, spawn)
    \/ \E id \in 1..starts : OsExit(id)
    \/ \E id \in 1..starts : CancelCtx(id)
    \/ \E id \in 1..starts : MonitorWait(id)
    \/ \E id \in 1..starts : MonitorSetState(id)
    \/ \E id \in 1..(starts + 1) : GetProcessStatusState(id)
    \/ GetProcessStatusExitCode
    \/ cleanupTerminatedProcesses

SpecStatus == StatusInit /\ [][StatusNext]_vars

(***************************************************************************)
(* saveToDisk step by step, called by the monitors of two processes: the   *)
(* read lock of r.mu and the encoding of the table, os.Create, which       *)
(* truncates the file, and the Write of the encoder through the file it    *)
(* opened.  The file is the text it holds, character by character; of an   *)
(* entry the text keeps the state and the exit code, the fields whose      *)
(* length changes while a process is in the table.                         *)
(***************************************************************************)
\* the JSON text of a state
StateText(state) ==
    IF state = ProcessStateRunning THEN <<"r", "u", "n", "n", "i", "n", "g">>
    ELSE <<"t", "e", "r", "m", "i", "n", "a", "t", "e", "d">>

\* the JSON text of an exit code: null for a nil *int
ExitCodeText(exitCode) ==
    IF exitCode = <<>> THEN <<"n", "u", "l", "l">>
    ELSE IF exitCode[1] < 0 THEN <<"-", "1">>
    ELSE IF exitCode[1] = 0 THEN <<"0">> ELSE <<"1">>

\* the JSON text of the entries 1..n of the table d
RECURSIVE EncodeTable(_, _)
EncodeTable(d, n) ==
    IF n = 0 THEN <<>>
    ELSE EncodeTable(d, n - 1) \o <<"{">> \o StateText(d[n].State) \o <<",">>
            \o ExitCodeText(d[n].ExitCode) \o <<"}">>

\* saveToDisk up to os.Create: the read lock of r.mu, which any number of
\* goroutines hold together, and data, built from the table
saveToDiskData(id) ==
    /\ id \in DOMAIN proc
    /\ mon[id] = "save"
    /\ mu = "free"
    /\ mon' = [mon EXCEPT ![id] = "saving"]
    /\ saving' = saving \cup {[by |-> id, pc |-> "create",
                               data |-> EncodeTable(proc, Len(proc))]}
    /\ UNCHANGED <<buf, written, op, prev, handles, disk, shell, reader, config, starts,
                   processes, proc, os, deferred, mu, cancelled, cleanupLoop, ret>>

\* os.Create(r.config.PersistenceFile): the file is there and empty
saveToDiskCreate(id) ==
    \E s \in saving :
       /\ s.by = id
       /\ s.pc = "create"
       /\ disk' = [kind |-> "text", text |-> <<>>]
       /\ saving' = (saving \ {s}) \cup {[s EXCEPT !.pc = "encode"]}
       /\ UNCHANGED <<buf, written, op, prev, handles, shell, reader, config, starts,
                      processes, proc, os, mon, deferred, mu, cancelled, cleanupLoop, ret>>

\* json.NewEncoder(file).Encode(data): one Write at the offset of the opened
\* file, which is 0, over what the file holds there; then the file is closed
\* and the read lock released
saveToDiskEncode(id) ==
    \E s \in saving :
       /\ s.by = id
       /\ s.pc = "encode"
       /\ disk' = [kind |-> "text",
                   text |-> s.data \o SubSeq(disk.text, Len(s.data) + 1, Len(disk.text))]
       /\ saving' = saving \ {s}
       /\ mon' = [mon EXCEPT ![id] = "done"]
       /\ UNCHANGED <<buf, written, op, prev, handles, shell, reader, config, starts,
                      processes, proc, os, deferred, mu, cancelled, cleanupLoop, ret>>

\* a Registry with a PersistenceFile and two processes started
SaveInit ==
    /\ BufIdle
    /\ handles = NewHandles(FALSE)
    /\ disk = [kind |-> "missing"]
    /\ shell = NoShell
    /\ reader = NoReader
    /\ saving = NoSaving
    /\ config = [MaxProcesses |-> DefaultMaxProcesses, PersistenceFile |-> TRUE]
    /\ starts = 2
    /\ processes = {1, 2}
    /\ proc = <<NewProcess(FALSE), NewProcess(FALSE)>>
    /\ os = <<"alive", "alive">>
    /\ mon = <<"wait", "wait">>
    /\ deferred = <<0, 0>>
    /\ mu = "free"
    /\ cancelled = FALSE
    /\ cleanupLoop = "select"
    /\ ret = [call |-> "StartProcess", err |-> NoErr]

SaveNext ==
    \/ \E id \in 1..starts : OsExit(id)
    \/ \E id \in 1..starts : CancelCtx(id)
    \/ \E id \in 1..starts : OsKill(id)
    \/ \E id \in 1..starts : MonitorWait(id)
    \/ \E id \in 1..starts : MonitorSetState(id)
    \/ \E id \in 1..starts : saveToDiskData(id)
    \/ \E id \in 1..starts : saveToDiskCreate(id)
    \/ \E id \in 1..starts : saveToDiskEncode(id)

SpecSave == SaveInit /\ [][SaveNext]_vars

(***************************************************************************)
(* A table of one Process with its metadata, saved by saveToDisk and read  *)
(* back by the loadFromDisk of a new Registry.                             *)
(***************************************************************************)
\* StartTime: time.Now(), an instant with a monotonic clock reading
StartTimes == {[sec |-> 1, nsec |-> n, mono |-> TRUE] : n \in {0, 5}}

\* the metadata StartProcess gives a Process; <<>> stands for a nil slice or map
Metadata ==
    [PID : {100, 101}, Command : {"make"}, Args : {<<>>, <<"-k">>},
     Shell : {"bash", "sh"}, StartTime : StartTimes,
     Environment : {<<>>, <<"K=v">>}, WorkingDir : {"", "/srv"}]

\* time.Time as encoding/json writes it: RFC 3339 with the nanoseconds, the
\* monotonic reading left out
MarshalTime(t) == [text |-> "RFC3339Nano", sec |-> t.sec, nsec |-> t.nsec]

\* time.Parse(time.RFC3339, s): the fraction of a second is accepted
ParseTime(s) == [sec |-> s.sec, nsec |-> s.nsec, mono |-> FALSE]

\* the JSON object saveToDisk writes for the Process p
EncodeEntry(p) ==
    [pid |-> p.PID, command |-> p.Command, args |-> p.Args, shell |-> p.Shell,
     start_time |-> MarshalTime(p.StartTime), state |-> p.State,
     exit_code |-> p.ExitCode, environment |-> p.Environment,
     working_dir |-> p.WorkingDir]

\* the Process loadFromDisk builds from the JSON object e: it reads pid,
\* command, shell, start_time, state and exit_code
DecodeEntry(e, live) ==
    [PID |-> e.pid, Command |-> e.command, Args |-> <<>>, Shell |-> e.shell,
     StartTime |-> ParseTime(e.start_time),
     State |-> IF e.state = ProcessStateRunning /\ ~live THEN ProcessStateTerminated
               ELSE e.state,
     ExitCode |-> e.exit_code, Environment |-> <<>>, WorkingDir |-> "",
     process |-> "nil", stdin |-> "nil", stdout |-> "nil", stderr |-> "nil",
     signalChan |-> "open"]

\* saveToDisk called by a monitor: the file holds the entries of the table
RoundTripSave ==
    /\ mu = "free"
    /\ config.PersistenceFile
    /\ ret.call = "StartProcess"
    /\ disk' = [kind |-> "snapshot",
                data |-> [id \in processes |-> EncodeEntry(proc[id])]]
    /\ Return("saveToDisk", NoErr)
    /\ UNCHANGED <<buf, written, op, prev, handles, shell, reader, saving, config, starts,
                   processes, proc, os, mon, deferred, mu, cancelled, cleanupLoop>>

\* the program is started again: NewRegistry with the same PersistenceFile
\* loads the file; live: a process with the pid of the entry is running
RoundTripLoad(live) ==
    /\ disk.kind = "snapshot"
    /\ ret.call = "saveToDisk"
    /\ proc' = [id \in DOMAIN disk.data |-> DecodeEntry(disk.data[id], live)]
    /\ processes' = DOMAIN disk.data
    /\ os' = [id \in DOMAIN disk.data |-> IF live THEN "alive" ELSE "gone"]
    /\ mon' = [id \in DOMAIN disk.data |-> "none"]
    /\ Return("NewRegistry", NoErr)
    /\ UNCHANGED <<buf, written, op, prev, handles, disk, shell, reader, saving, config, starts,
                   deferred, mu, cancelled, cleanupLoop>>

\* a Registry with a PersistenceFile and one Process in its table, Running,
\* or Terminated by its monitor with or without an exit code
RoundTripInit ==
    /\ BufIdle
    /\ handles = NewHandles(FALSE)
    /\ disk = [kind |-> "missing"]
    /\ shell = NoShell
    /\ reader = NoReader
    /\ saving = NoSaving
    /\ config = [MaxProcesses |-> DefaultMaxProcesses, PersistenceFile |-> TRUE]
    /\ starts = 1
    /\ processes = {1}
    /\ \E meta \in Metadata, exitCode \in {<<>>, <<0>>, <<1>>}, running \in BOOLEAN :
          /\ running => exitCode = <<>>
          /\ proc = <<meta @@ [NewProcess(FALSE) EXCEPT
                                 !.State = IF running THEN ProcessStateRunning
                                           ELSE ProcessStateTerminated,
                                 !.ExitCode = exitCode]>>
          /\ os = <<IF running THEN "alive" ELSE "reaped">>
          /\ mon = <<IF running THEN "wait" ELSE "done">>
    /\ deferred = <<0>>
    /\ mu = "free"
    /\ cancelled = FALSE
    /\ cleanupLoop = "select"
    /\ ret = [call |-> "StartProcess", err |-> NoErr]

RoundTripNext ==
    \/ RoundTripSave
    \/ \E live \in BOOLEAN : RoundTripLoad(live)

SpecRoundTrip == RoundTripInit /\ [][RoundTripNext]_vars

(***************************************************************************)
(* One ExecuteShell call with its command, under the scheduling of the     *)
(* timer and of the goroutines: a timer that is armed fires, cmd.Wait()    *)
(* returns once the command has ended, a select that can proceed does.     *)
(***************************************************************************)
ShellInit == NewRegistry(DefaultMaxProcesses, 0, FALSE) /\ BufIdle

ShellNext ==
    \/ \E args \in ShellArgs, spawn \in BOOLEAN : ExecuteShell(args, spawn)
    \/ \E status \in ExitCodes : ShellCmdExit(status)
    \/ ShellCtxDone
    \/ ShellCmdKilled
    \/ ShellWaitReturns
    \/ ShellTimerFires
    \/ \E case \in {"done", "timer"} : ShellSelect(case)

ShellFairness ==
    /\ WF_vars(ShellCmdKilled)
    /\ WF_vars(ShellWaitReturns)
    /\ WF_vars(ShellTimerFires)
    /\ WF_vars(\E case \in {"done", "timer"} : ShellSelect(case))

SpecShell == ShellInit /\ [][ShellNext]_vars /\ ShellFairness

(***************************************************************************)
(* Listing: a Registry whose processes exit and are swept while            *)
(* ListProcesses is called with every filter, and with limits and offsets  *)
(* up to the largest int.                                                  *)
(***************************************************************************)
ListInit == NewRegistry(DefaultMaxProcesses, ListStarts, FALSE) /\ BufIdle

ListNext ==
    \/ StartProcess(TRUE, TRUE)
    \/ \E id \in 1..starts : OsExit(id)
    \/ \E id \in 1..starts : MonitorWait(id)
    \/ \E id \in 1..starts : MonitorSetState(id)
    \/ cleanupTerminatedProcesses
    \/ \E state \in StateFilters, limit \in (0..ListStarts) \cup {MaxInt},
          offset \in (0..(ListStarts + 1)) \cup {MaxInt} :
          ListProcesses(state, limit, offset)

SpecList == ListInit /\ [][ListNext]_vars

(***************************************************************************)
(* The capacity scenario of TestRegistryCapacityLimit, continued: a        *)
(* Registry of MaxProcesses = 2 whose client starts and terminates         *)
(* processes while the cleanup loop ticks.                                 *)
(***************************************************************************)
CapacityInit == NewRegistry(TestMaxProcesses, CapacityStarts, FALSE) /\ BufIdle

CapacityNext ==
    \/ StartProcess(TRUE, TRUE)
    \/ \E id \in 1..starts : OsExit(id)
    \/ \E id \in 1..starts : OsTerm(id)
    \/ \E id \in 1..starts : OsKill(id)
    \/ \E id \in 1..starts : MonitorWait(id)
    \/ \E id \in 1..starts : MonitorSetState(id)
    \/ \E id \in 1..starts, force \in BOOLEAN, gracePeriod \in {0, 1} :
          TerminateProcess(id, force, gracePeriod)
    \/ \E id \in 1..starts : DeferredKill(id)
    \/ cleanupTerminatedProcesses

\* the monitors and the OS are scheduled, and the ticker of cleanupLoop fires
CapacityFairness ==
    /\ \A id \in 1..CapacityStarts :
          /\ WF_vars(MonitorWait(id))
          /\ WF_vars(MonitorSetState(id))
          /\ WF_vars(OsKill(id))
    /\ WF_vars(cleanupTerminatedProcesses)

SpecCapacity == CapacityInit /\ [][CapacityNext]_vars /\ CapacityFairness

(***************************************************************************)
(* Calls on the OutputBuffer under test.                                   *)
(***************************************************************************)
NoOp == [kind |-> "none"]

\* prev keeps the previous call only when the new call repeats its arguments
Repeats(call) ==
    /\ op.kind = call.kind
    /\ call.kind \in {"ReadStdout", "ReadStderr"}
    /\ op.position = call.position
    /\ op.maxBytes = call.maxBytes

Record(call) ==
    /\ prev' = IF Repeats(call) THEN op ELSE NoOp
    /\ op' = call

CallWriteStdout(data) ==
    /\ buf' = WriteStdout(buf, data)
    /\ written' = [written EXCEPT !.stdout = @ \o data]
    /\ Record([kind |-> "WriteStdout", data |-> data])
    /\ UNCHANGED regVars

CallWriteStderr(data) ==
    /\ buf' = WriteStderr(buf, data)
    /\ written' = [written EXCEPT !.stderr = @ \o data]
    /\ Record([kind |-> "WriteStderr", data |-> data])
    /\ UNCHANGED regVars

\* a read that consumes what it returns
CallReadStdout_Consuming(position, maxBytes) ==
    LET result == ReadStdout(buf, position, maxBytes)
    IN  /\ Record([kind |-> "ReadStdout", position |-> position, maxBytes |-> maxBytes,
                   result |-> result])
        /\ buf' = [buf EXCEPT !.stdout = DropFront(@, result.newPosition - buf.stdoutPos),
                              !.stdoutPos = result.newPosition]
        /\ UNCHANGED written
        /\ UNCHANGED regVars

CallReadStdout(position, maxBytes) ==
    /\ Record([kind |-> "ReadStdout", position |-> position, maxBytes |-> maxBytes,
               result |-> ReadStdout(buf, position, maxBytes)])
    /\ UNCHANGED <<buf, written>>
    /\ UNCHANGED regVars

CallReadStderr(position, maxBytes) ==
    /\ Record([kind |-> "ReadStderr", position |-> position, maxBytes |-> maxBytes,
               result |-> ReadStderr(buf, position, maxBytes)])
    /\ UNCHANGED <<buf, written>>
    /\ UNCHANGED regVars

TotalWritten == Len(written.stdout) + Len(written.stderr)

BufInit ==
    /\ \E maxSize \in 0..MaxCap : buf = NewOutputBuffer(maxSize)
    /\ written = [stdout |-> <<>>, stderr |-> <<>>]
    /\ op = NoOp
    /\ prev = NoOp
    /\ NewRegistry(TestMaxProcesses, 0, FALSE)

BufNext ==
    \/ \E data \in SeqsOf(Bytes, 1, MaxData) :
          /\ TotalWritten + Len(data) <= MaxTotal
          /\ CallWriteStdout(data)
    \/ \E data \in SeqsOf(Bytes, 1, MaxData) :
          /\ TotalWritten + Len(data) <= MaxTotal
          /\ CallWriteStderr(data)
    \/ \E position \in 0..(MaxTotal + 1), maxBytes \in 0..MaxRead :
          CallReadStdout(position, maxBytes)
    \/ \E position \in 0..(MaxTotal + 1), maxBytes \in 0..MaxRead :
          CallReadStderr(position, maxBytes)

SpecBuf == BufInit /\ [][BufNext]_vars

(***************************************************************************)
(* One OutputBuffer, written by WriteStdout and WriteStderr, and a client  *)
(* that reads one of its streams in sequence: the first read at position   *)
(* 0, every later read at the position the read before it returned.        *)
(***************************************************************************)
\* one read of the sequential reader; its first read chooses the stream
SequentialRead(stream, maxBytes) ==
    /\ reader.stream \in {"none", stream}
    /\ LET result == IF stream = "stdout" THEN ReadStdout(buf, reader.next, maxBytes)
                     ELSE ReadStderr(buf, reader.next, maxBytes)
           first == result.newPosition - Len(result.data)
       IN  reader' = [stream |-> stream,
                      next |-> result.newPosition,
                      got |-> reader.got \o
                                [i \in 1..Len(result.data) |->
                                    <<first + i - 1, result.data[i]>>]]
    /\ UNCHANGED <<buf, written, op, prev, handles, disk, shell, saving>>
    /\ UNCHANGED <<config, starts, processes, proc, os, mon, deferred, mu, cancelled,
                   cleanupLoop, ret>>

ReaderInit == BufInit

ReaderNext ==
    \/ \E data \in SeqsOf(Bytes, 1, MaxData) :
          /\ TotalWritten + Len(data) <= MaxTotal
          /\ CallWriteStdout(data)
    \/ \E data \in SeqsOf(Bytes, 1, MaxData) :
          /\ TotalWritten + Len(data) <= MaxTotal
          /\ CallWriteStderr(data)
    \/ \E stream \in {"stdout", "stderr"}, maxBytes \in 1..MaxRead :
          SequentialRead(stream, maxBytes)

SpecReader == ReaderInit /\ [][ReaderNext]_vars

(***************************************************************************)
(* The OutputBuffer of TestOutputBuffer: cap 100, "hello world\n" and 150  *)
(* bytes of 'A'.                                                           *)
(***************************************************************************)
ScenarioCap == 100
LargeLen == 150
Hello == <<"h", "e", "l", "l", "o", " ", "w", "o", "r", "l", "d", "\n">>
LargeData == [i \in 1..LargeLen |-> "A"]

ScenarioInit ==
    /\ buf = NewOutputBuffer(ScenarioCap)
    /\ written = [stdout |-> <<>>, stderr |-> <<>>]
    /\ op = NoOp
    /\ prev = NoOp
    /\ NewRegistry(TestMaxProcesses, 0, FALSE)

ScenarioNext ==
    \/ \E data \in {Hello, LargeData} :
          /\ Len(written.stdout) + Len(data) <= Len(Hello) + LargeLen
          /\ CallWriteStdout(data)
    \/ \E position \in 0..(Len(Hello) + LargeLen), maxBytes \in {50, 100} :
          CallReadStdout(position, maxBytes)

SpecScenario == ScenarioInit /\ [][ScenarioNext]_vars

(***************************************************************************)
(* The first Process of a Registry with its output: buf is its outputBuf,  *)
(* which the two captureOutput goroutines fill line by line and            *)
(* ReadProcessOutput reads.                                                *)
(***************************************************************************)
\* what scanner.Bytes() with the newline put back can be
Lines == {<<"\n">>, <<"a", "\n">>, <<"b", "\n">>}

\* one turn of the loop of captureOutput: the goroutine exists when
\* captureOutput was asked for, and its reader gives lines until cmd.Wait()
\* or Cleanup closes it
captureOutput(id, isStdout, line) ==
    /\ id \in DOMAIN proc
    /\ (IF isStdout THEN proc[id].stdout ELSE proc[id].stderr) = "open"
    /\ os[id] # "reaped"
    /\ TotalWritten + Len(line) <= MaxTotal
    /\ buf' = IF isStdout THEN WriteStdout(buf, line) ELSE WriteStderr(buf, line)
    /\ written' = IF isStdout THEN [written EXCEPT !.stdout = @ \o line]
                  ELSE [written EXCEPT !.stderr = @ \o line]
    /\ UNCHANGED <<op, prev, regVars>>

\* NewOutputBuffer(r.config.OutputBufferSize) of StartProcess, for the one
\* process this Registry starts
OutputInit ==
    /\ NewRegistry(TestMaxProcesses, 1, FALSE)
    /\ \E maxSize \in 1..MaxCap : buf = NewOutputBuffer(maxSize)
    /\ written = [stdout |-> <<>>, stderr |-> <<>>]
    /\ op = NoOp
    /\ prev = NoOp

OutputNext ==
    \/ \E capture \in BOOLEAN : StartProcess(capture, TRUE)
    \/ OsExit(1)
    \/ MonitorWait(1)
    \/ MonitorSetState(1)
    \/ cleanupTerminatedProcesses
    \/ \E isStdout \in BOOLEAN, line \in Lines : captureOutput(1, isStdout, line)
    \/ \E stream \in Streams, position \in 0..MaxTotal, maxBytes \in 1..MaxRead :
          ReadProcessOutput(1, stream, position, maxBytes)

SpecOutput == OutputInit /\ [][OutputNext]_vars

(***************************************************************************)
(* Properties of the OutputBuffer.                                         *)
(***************************************************************************)
IsRead(o) == o.kind \in {"ReadStdout", "ReadStderr"}

\* the buffer and base position the call o works on
StreamBuf(ob, o) == IF o.kind \in {"ReadStdout", "WriteStdout"} THEN ob.stdout ELSE ob.stderr
StreamPos(ob, o) == IF o.kind \in {"ReadStdout", "WriteStdout"} THEN ob.stdoutPos ELSE ob.stderrPos
StreamWritten(o) == IF o.kind \in {"ReadStdout", "WriteStdout"} THEN written.stdout ELSE written.stderr

\* C2: after each Append (WriteStdout / WriteStderr) the retained length of the
\* stream is at most the cap, the bytes evicted are taken from the front, and
\* the base position has grown by exactly the number of evicted bytes (by 0 when
\* nothing was evicted); the other stream is left alone.
C2_AppendKeepsCapAndAdvancesBase ==
    [][(written' # written) =>
         LET o == op'
             before == StreamBuf(buf, o)
             after == StreamBuf(buf', o)
             evicted == Len(before) + Len(o.data) - Len(after)
         IN  /\ o.kind \in {"WriteStdout", "WriteStderr"}
             /\ Len(after) <= buf'.maxSize
             /\ evicted >= 0
             /\ (Len(before) + Len(o.data) <= buf.maxSize => evicted = 0)
             /\ after = SubSeq(before \o o.data, evicted + 1, Len(before) + Len(o.data))
             /\ StreamPos(buf', o) = StreamPos(buf, o) + evicted
             /\ (o.kind = "WriteStdout" =>
                   buf'.stderr = buf.stderr /\ buf'.stderrPos = buf.stderrPos)
             /\ (o.kind = "WriteStderr" =>
                   buf'.stdout = buf.stdout /\ buf'.stdoutPos = buf.stdoutPos)
    ]_vars

\* an Append to stdout has evicted bytes: the buffer is full and its base moved
C2_Witness ==
    /\ op.kind = "WriteStdout"
    /\ buf.maxSize > 0
    /\ Len(buf.stdout) = buf.maxSize
    /\ buf.stdoutPos > 0

\* the reference result of Read(position, maxBytes) on the concatenation all of
\* everything ever appended to the stream
Reference(all, position, maxBytes) ==
    LET total == Len(all)
        end == Min(position + maxBytes, total)
    IN  IF position >= total
        THEN [data |-> <<>>, newPosition |-> position, hasMore |-> FALSE]
        ELSE [data |-> SubSeq(all, position + 1, end), newPosition |-> end,
              hasMore |-> end < total]

\* C3: a Read at a position at or above the base position returns the bytes at
\* the absolute offsets [position, min(position + maxBytes, total)) of everything
\* ever appended, where total = base position + retained length; the new position
\* is position + bytes returned, hasMore tells whether new position < total, and
\* at or past total it returns nothing, the position unchanged and hasMore FALSE.
C3_ReadMatchesConcatenation ==
    (IsRead(op) /\ op.position >= StreamPos(buf, op)) =>
        /\ StreamPos(buf, op) + Len(StreamBuf(buf, op)) = Len(StreamWritten(op))
        /\ op.result = Reference(StreamWritten(op), op.position, op.maxBytes)
        /\ op.result.newPosition = op.position + Len(op.result.data)

\* a read strictly inside the retained bytes of a buffer that has evicted some
C3_Witness ==
    /\ op.kind = "ReadStdout"
    /\ buf.stdoutPos > 0
    /\ op.position > buf.stdoutPos
    /\ Len(op.result.data) > 0
    /\ op.result.hasMore

\* C4: a Read requested below the base position raises no error and gives what
\* the same Read gives at the base position: up to maxBytes bytes from the
\* front of the retained bytes, and the new position base + bytes returned.
C4_ReadBelowBaseClampsForward ==
    (IsRead(op) /\ op.position < StreamPos(buf, op)) =>
        LET retained == StreamBuf(buf, op)
            base == StreamPos(buf, op)
            atBase == IF op.kind = "ReadStdout"
                      THEN ReadStdout(buf, base, op.maxBytes)
                      ELSE ReadStderr(buf, base, op.maxBytes)
        IN  /\ op.result = atBase
            /\ op.result.data = SubSeq(retained, 1, Min(op.maxBytes, Len(retained)))
            /\ op.result.newPosition = base + Len(op.result.data)

\* a read below the base position that returned bytes
C4_Witness ==
    /\ op.kind = "ReadStdout"
    /\ op.position < buf.stdoutPos
    /\ Len(op.result.data) > 0

\* the state of the scenario: 12 bytes, then 150 bytes, appended to stdout
AfterScenarioWrites == written.stdout = Hello \o LargeData

IsReadStdout(o, position, maxBytes) ==
    o.kind = "ReadStdout" /\ o.position = position /\ o.maxBytes = maxBytes

\* C5 as stated: with cap 100, after 12 and then 150 bytes (retained 100, base
\* 62), Read(0, 50) returns no bytes, position 62 and hasMore, Read(62, 100)
\* returns the 100 retained bytes and no hasMore; and every Read below the base
\* of a non-empty buffer returns no data, the base position and hasMore.
C5_Original ==
    /\ AfterScenarioWrites => Len(buf.stdout) = 100 /\ buf.stdoutPos = 62
    /\ (AfterScenarioWrites /\ IsReadStdout(op, 0, 50)) =>
          op.result = [data |-> <<>>, newPosition |-> 62, hasMore |-> TRUE]
    /\ (AfterScenarioWrites /\ IsReadStdout(op, 62, 100)) =>
          op.result = [data |-> [i \in 1..100 |-> "A"], newPosition |-> 162,
                       hasMore |-> FALSE]
    /\ (op.kind = "ReadStdout" /\ op.position < buf.stdoutPos /\ Len(buf.stdout) > 0) =>
          op.result = [data |-> <<>>, newPosition |-> buf.stdoutPos, hasMore |-> TRUE]

\* C5 amended: with cap 100, after 12 and then 150 bytes (retained 100, base
\* 62), Read(0, 50) returns the first 50 retained bytes, position 112 and
\* hasMore, Read(62, 100) returns the 100 retained bytes, position 162 and no
\* hasMore; and every Read below the base of a non-empty buffer returns the
\* first min(maxBytes, retained) retained bytes, the position base + bytes
\* returned, and hasMore exactly when retained bytes remain beyond them.
C5_ReadBelowBaseReturnsRetainedFront ==
    /\ AfterScenarioWrites => Len(buf.stdout) = 100 /\ buf.stdoutPos = 62
    /\ (AfterScenarioWrites /\ IsReadStdout(op, 0, 50)) =>
          op.result = [data |-> [i \in 1..50 |-> "A"], newPosition |-> 112,
                       hasMore |-> TRUE]
    /\ (AfterScenarioWrites /\ IsReadStdout(op, 62, 100)) =>
          op.result = [data |-> [i \in 1..100 |-> "A"], newPosition |-> 162,
                       hasMore |-> FALSE]
    /\ (op.kind = "ReadStdout" /\ op.position < buf.stdoutPos /\ Len(buf.stdout) > 0) =>
          LET n == Min(op.maxBytes, Len(buf.stdout))
          IN  op.result = [data |-> SubSeq(buf.stdout, 1, n),
                           newPosition |-> buf.stdoutPos + n,
                           hasMore |-> n < Len(buf.stdout)]

\* Read(0, 50) has been issued after the two writes of the scenario
C5_Witness == AfterScenarioWrites /\ IsReadStdout(op, 0, 50)

\* C6: repeating a Read with the same (position, maxBytes) and no Append in
\* between returns the same data, new position and hasMore, and no Read changes
\* the retained bytes or the base position of either stream.
C6_ReadIdempotentAndPure ==
    /\ [](prev.kind # "none" => op.result = prev.result)
    /\ [][(IsRead(op') /\ <<op, prev>>' # <<op, prev>>) => buf' = buf]_vars

\* a read that returned bytes has just been repeated
C6_Witness ==
    /\ op.kind = "ReadStdout"
    /\ prev.kind = "ReadStdout"
    /\ Len(op.result.data) > 0
    /\ written.stdout # <<>>

(***************************************************************************)
(* Properties of the Registry.                                             *)
(***************************************************************************)
\* C1: StartProcess called while the table holds MaxProcesses entries returns
\* RegistryFull and registers and spawns nothing: the table, the Process
\* objects, the OS processes and the workers are as they were.
C1_StartAtCapacityIsRefused ==
    [][\A capture \in BOOLEAN, spawn \in BOOLEAN :
          (StartProcess(capture, spawn)
             /\ Cardinality(processes) = config.MaxProcesses) =>
                /\ ret' = [call |-> "StartProcess", err |-> ErrRegistryFull]
                /\ UNCHANGED <<processes, proc, os, mon, deferred>>
    ]_vars

\* StartProcess has just been refused by a full table
C1_Witness ==
    /\ ret = [call |-> "StartProcess", err |-> ErrRegistryFull]
    /\ Cardinality(processes) = config.MaxProcesses
    /\ \A id \in processes : IsRunning(proc[id])

\* C7 as stated: in every reachable state of every Process of the table, the
\* exit code is set if and only if the state is Terminated.
C7_Original ==
    \A id \in processes :
        (GetExitCode(proc[id]) # <<>>) <=> (GetState(proc[id]) = ProcessStateTerminated)

\* C8: a Process is created Running and in the table; the only change of its
\* state is Running -> Terminated, so that it happens at most once and no step
\* of the Registry, its workers or the OS changes the state of a Terminated
\* Process.
C8_RunningThenTerminatedForGood ==
    [][/\ \A id \in DOMAIN proc :
             /\ id \in DOMAIN proc'
             /\ (GetState(proc'[id]) # GetState(proc[id]) =>
                   /\ GetState(proc[id]) = ProcessStateRunning
                   /\ GetState(proc'[id]) = ProcessStateTerminated)
       /\ \A id \in (DOMAIN proc') \ (DOMAIN proc) :
             /\ GetState(proc'[id]) = ProcessStateRunning
             /\ id \in processes'
    ]_vars

\* a Terminated Process of the table has been the target of TerminateProcess
C8_Witness ==
    /\ ret = [call |-> "TerminateProcess", err |-> ErrProcessAlreadyTerminated]
    /\ \E id \in processes : GetState(proc[id]) = ProcessStateTerminated
    /\ cancelled

\* the part of C9 about the monitor: every Process has a monitor, and once
\* its OS process has exited it reaches Terminated
C9_ExitedLeadsToTerminated ==
    /\ [](\A id \in DOMAIN proc : mon[id] # "none")
    /\ \A id \in 1..FairStarts :
          (id \in DOMAIN proc /\ os[id] \in Exited)
             ~> (id \in DOMAIN proc /\ GetState(proc[id]) = ProcessStateTerminated)

\* C9 as stated: every started Process, with or without captureOutput, has a
\* monitor, so that once its OS process has exited it reaches Terminated; and
\* when the exit status is 0 the monitor records the exit code 0.
C9_Original ==
    /\ C9_ExitedLeadsToTerminated
    /\ [][\A id \in DOMAIN proc :
             (mon[id] = "wait" /\ mon'[id] # "wait" /\ ExitStatus(os[id]) = 0) =>
                GetExitCode(proc'[id]) = <<0>>
       ]_vars

\* C10: TerminateProcess with force on a Running process sends SIGKILL at once
\* (it reaches the OS process unless cmd.Wait() has already collected it) and
\* starts no grace-period goroutine, whatever gracePeriod is; and a process
\* with SIGKILL pending, or already exited, reaches Terminated through the
\* steps of the OS and of its monitor alone: no fairness of the grace-period
\* goroutines is assumed.
C10_ForceKillsWithoutGrace ==
    /\ [][\A id \in 1..FairStarts, gracePeriod \in {0, 1} :
             (TerminateProcess(id, TRUE, gracePeriod)
                /\ id \in processes /\ IsRunning(proc[id])) =>
                   /\ deferred' = deferred
                   /\ os'[id] \in {"kill", "reaped"} \cup Exited
                   /\ (os[id] \in {"alive", "term"} => os'[id] = "kill")
                   /\ ret'.call = "TerminateProcess force"
                   /\ (os[id] # "reaped" <=> ret'.err = NoErr)
       ]_vars
    /\ \A id \in 1..FairStarts :
          (id \in DOMAIN proc /\ os[id] \in {"kill", "reaped"} \cup Exited)
             ~> (id \in DOMAIN proc /\ GetState(proc[id]) = ProcessStateTerminated)

\* a forced TerminateProcess has put SIGKILL on a live process and no
\* grace-period goroutine exists
C10_Witness ==
    /\ ret = [call |-> "TerminateProcess force", err |-> NoErr]
    /\ \E id \in processes :
          os[id] = "kill" /\ deferred[id] = 0 /\ IsRunning(proc[id])

\* C11: TerminateProcess on an entry of the table that is not Running returns
\* ProcessAlreadyTerminated, whatever force and gracePeriod are: no signal
\* reaches an OS process, no grace-period goroutine starts, and the Process
\* objects (state, exit code, handles) and the table are as they were.
C11_TerminateOfTerminatedIsRefused ==
    [][\A id \in 1..starts, force \in BOOLEAN, gracePeriod \in {0, 1} :
          (TerminateProcess(id, force, gracePeriod)
             /\ id \in processes /\ ~IsRunning(proc[id])) =>
                /\ ret' = [call |-> "TerminateProcess", err |-> ErrProcessAlreadyTerminated]
                /\ UNCHANGED <<os, deferred, proc, processes, mon>>
    ]_vars

\* TerminateProcess has been refused on a Terminated entry whose exit code is
\* recorded
C11_Witness ==
    /\ ret = [call |-> "TerminateProcess", err |-> ErrProcessAlreadyTerminated]
    /\ \E id \in processes :
          /\ GetState(proc[id]) = ProcessStateTerminated
          /\ GetExitCode(proc[id]) # <<>>
    /\ ~cancelled

\* C12: a graceful TerminateProcess with a grace period sends SIGTERM and
\* nothing else; the goroutine it leaves sends SIGKILL, when the grace period
\* has elapsed, if and only if the Process is Running then, and calls no
\* SendSignal on a Process that is Terminated, in the table or swept from it.
C12_DeferredKillOnlyIfStillRunning ==
    [][\A id \in 1..starts :
          /\ DeferredKill(id) =>
                IF IsRunning(proc[id])
                THEN /\ os' = SendSignal(id, SIGKILL)
                     /\ ret' = [call |-> "TerminateProcess goroutine",
                                err |-> SendSignalErr(id)]
                ELSE /\ os' = os
                     /\ ret' = [call |-> "TerminateProcess goroutine", err |-> NotSent]
          /\ (TerminateProcess(id, FALSE, 1) /\ id \in processes /\ IsRunning(proc[id])) =>
                /\ os' = SendSignal(id, SIGTERM)
                /\ (os[id] # "kill" => os'[id] # "kill")
    ]_vars

\* the grace period of a Process that is Terminated and swept from the table
\* has elapsed, and its goroutine has sent nothing
C12_Witness ==
    /\ ret = [call |-> "TerminateProcess goroutine", err |-> NotSent]
    /\ Len(proc) = 1
    /\ 1 \notin processes
    /\ GetState(proc[1]) = ProcessStateTerminated
    /\ deferred[1] = 0

\* C13: a graceful TerminateProcess with a grace period that has sent SIGTERM
\* to a Running process leaves a grace-period goroutine, and a Process with
\* such a goroutine reaches Terminated, whether or not the command obeys
\* SIGTERM: the goroutine sends SIGKILL and the monitor records the exit.
C13_GracefulTerminateTerminates ==
    /\ [][\A id \in 1..FairStarts :
             (TerminateProcess(id, FALSE, 1) /\ id \in processes
                /\ IsRunning(proc[id]) /\ SendSignalErr(id) = NoErr) =>
                   deferred'[id] = deferred[id] + 1
       ]_vars
    /\ \A id \in 1..FairStarts :
          (id \in DOMAIN proc /\ deferred[id] > 0)
             ~> (id \in DOMAIN proc /\ GetState(proc[id]) = ProcessStateTerminated)

\* the grace-period goroutine has sent SIGKILL and the monitor has recorded
\* the death by signal
C13_Witness ==
    /\ ret = [call |-> "TerminateProcess goroutine", err |-> NoErr]
    /\ Len(proc) = 1
    /\ GetState(proc[1]) = ProcessStateTerminated
    /\ GetExitCode(proc[1]) = <<0 - 1>>

C15_SweepRemovesExactlyTheTerminated ==
    [][cleanupTerminatedProcesses =>
          LET dead == {id \in processes : GetState(proc[id]) = ProcessStateTerminated}
          IN  /\ processes' = processes \ dead
              /\ \A id \in dead :
                    /\ proc'[id].stdin = "nil"
                    /\ proc'[id].stdout = "nil"
                    /\ proc'[id].stderr = "nil"
                    /\ proc'[id].signalChan = "nil"
                    /\ GetState(proc'[id]) = ProcessStateTerminated
                    /\ GetExitCode(proc'[id]) = GetExitCode(proc[id])
              /\ \A id \in (DOMAIN proc) \ dead : proc'[id] = proc[id]
              /\ os' = os
    ]_vars

\* a sweep has removed and released a Terminated entry and has left a Running
\* entry with its handles in the table
C15_Witness ==
    /\ ~cancelled
    /\ \E a \in DOMAIN proc, b \in processes :
          /\ a \notin processes
          /\ GetState(proc[a]) = ProcessStateTerminated
          /\ proc[a].stdin = "nil" /\ proc[a].signalChan = "nil"
          /\ IsRunning(proc[b])
          /\ proc[b].stdin = "open" /\ proc[b].signalChan = "open"

\* C16: called with an id that is not in the table, never issued or removed by
\* a sweep, GetProcess, GetProcessStatus, ReadProcessOutput (whatever the
\* stream), SendInputToProcess, SendSignalToProcess and TerminateProcess
\* return ProcessNotFound and change neither the table nor any Process, OS
\* process, goroutine or output buffer.
C16_AbsentIdIsNotFound ==
    [][\A id \in 1..(starts + 1) :
          LET NotFound(call) ==
                  /\ ret' = [call |-> call, err |-> ErrProcessNotFound]
                  /\ UNCHANGED <<processes, proc, os, mon, deferred, buf, mu>>
          IN  id \notin processes =>
                /\ GetProcess(id) => NotFound("GetProcess")
                /\ GetProcessStatus(id) => NotFound("GetProcessStatus")
                /\ \A stream \in Streams :
                      ReadProcessOutput(id, stream, 0, 1) =>
                         /\ NotFound("ReadProcessOutput")
                         /\ op' = ReadResult(<<>>, 0, FALSE)
                /\ SendInputToProcess(id) => NotFound("SendInputToProcess")
                /\ \A sig \in Signals :
                      SendSignalToProcess(id, sig) => NotFound("SendSignalToProcess")
                /\ \A force \in BOOLEAN, gracePeriod \in {0, 1} :
                      TerminateProcess(id, force, gracePeriod) =>
                         NotFound("TerminateProcess")
    ]_vars

\* ReadProcessOutput has returned ProcessNotFound while the only process ever
\* started is Terminated and swept from the table
C16_Witness ==
    /\ ret = [call |-> "ReadProcessOutput", err |-> ErrProcessNotFound]
    /\ Len(proc) = 1
    /\ processes = {}
    /\ GetState(proc[1]) = ProcessStateTerminated

\* C17 as stated: SendInputToProcess on an entry of the table returns
\* ProcessNotRunning when the entry is not Running, and when it is Running the
\* bytes are written to the stdin of the child (the call returns nil).
C17_Original ==
    [][\A id \in 1..starts :
          (SendInputToProcess(id) /\ id \in processes) =>
             ret' = [call |-> "SendInputToProcess",
                     err |-> IF IsRunning(proc[id]) THEN NoErr ELSE ErrProcessNotRunning]
    ]_vars

\* C17, amended: SendInputToProcess on an entry of the table returns
\* ProcessNotRunning and writes nothing when the entry is not Running; when it
\* is Running the call returns what the write to the stdin handle gives: nil
\* (the bytes are written) while the handle is held and the child has not
\* exited, ProcessNotRunning when Shutdown has released the handle, and the
\* error of the write when the child has exited. It changes nothing else.
C17_SendInputWritesWhileRunningAndHeld ==
    [][\A id \in 1..starts :
          (SendInputToProcess(id) /\ id \in processes) =>
             /\ ret'.call = "SendInputToProcess"
             /\ ret'.err =
                   IF ~IsRunning(proc[id]) THEN ErrProcessNotRunning
                   ELSE IF proc[id].stdin = "nil" THEN ErrProcessNotRunning
                   ELSE IF os[id] \in {"alive", "term", "kill"} THEN NoErr
                   ELSE ErrWrite
             /\ UNCHANGED <<processes, proc, os, mon, deferred>>
    ]_vars

\* SendInputToProcess has returned ProcessNotRunning on a Running entry whose
\* child is alive: Shutdown has released its stdin
C17_Witness ==
    /\ ret = [call |-> "SendInputToProcess", err |-> ErrProcessNotRunning]
    /\ Len(proc) = 1
    /\ 1 \in processes
    /\ IsRunning(proc[1])
    /\ os[1] \in {"alive", "term"}
    /\ proc[1].stdin = "nil"

\* C18: ReadProcessOutput on an entry of the table returns ErrInvalidInput and
\* no data for every stream other than "stdout" and "stderr"; for "stdout" it
\* returns without error exactly what ReadStdout of the entry's outputBuf
\* returns, for "stderr" exactly what ReadStderr returns, so that from the base
\* position on the data are bytes captured from that very stream; this holds
\* whatever the state of the entry, and the call changes neither the buffer nor
\* the table.
C18_ReadDelegatesToMatchingStream ==
    [][\A stream \in Streams, position \in 0..MaxTotal, maxBytes \in 1..MaxRead :
          (ReadProcessOutput(1, stream, position, maxBytes) /\ 1 \in processes)
          => LET got == [data |-> op'.data, newPosition |-> op'.newPosition,
                         hasMore |-> op'.hasMore]
             IN  /\ GetState(proc[1]) \in {ProcessStateRunning, ProcessStateTerminated}
                 /\ stream \notin {"stdout", "stderr"}
                      => /\ ret'.err = ErrInvalidInput
                         /\ got = [data |-> <<>>, newPosition |-> 0, hasMore |-> FALSE]
                 /\ stream = "stdout"
                      => /\ ret'.err = NoErr
                         /\ got = ReadStdout(buf, position, maxBytes)
                         /\ position >= buf.stdoutPos
                              => got = Reference(written.stdout, position, maxBytes)
                 /\ stream = "stderr"
                      => /\ ret'.err = NoErr
                         /\ got = ReadStderr(buf, position, maxBytes)
                         /\ position >= buf.stderrPos
                              => got = Reference(written.stderr, position, maxBytes)
                 /\ buf' = buf
                 /\ processes' = processes
                 /\ proc' = proc]_vars

\* a read of the Terminated entry has returned a "b" that only stderr captured,
\* while stdout captured something else
C18_Witness ==
    /\ 1 \in processes
    /\ GetState(proc[1]) = ProcessStateTerminated
    /\ ret = [call |-> "ReadProcessOutput", err |-> NoErr]
    /\ op.kind = "ReadProcessOutput"
    /\ \E i \in DOMAIN op.data : op.data[i] = "b"
    /\ written.stdout # <<>>
    /\ \A i \in DOMAIN written.stdout : written.stdout[i] # "b"

\* a step that is a call of ListProcesses, whose arguments and result are op'
IsListProcesses == op' # op /\ op'.kind = "ListProcesses"

\* what C19 asks of the result o of a call made on the table as it is
ListResultAsStated(o) ==
    LET matching == Matching(o.state)
        total == Cardinality(matching)
        rest == IF total - o.offset > 0 THEN total - o.offset ELSE 0
    IN  /\ o.total = total
        /\ (o.state \in {"", "all"}) => total = Cardinality(processes)
        /\ Len(o.page) = Min(o.limit, rest)
        /\ \A i \in DOMAIN o.page : o.page[i] \in matching
        /\ o.offset > total => o.page = <<>>

\* C19 as stated: ListProcesses(state, limit, offset) with limit >= 0 and
\* offset >= 0 returns, without failing, as total the number of entries of the
\* table that match the filter ("" and "all" match every entry), and a page of
\* exactly min(limit, max(0, total - offset)) entries, each a matching entry of
\* the table; an offset beyond the number of matching entries gives an empty
\* page.
C19_Original ==
    [][(IsListProcesses /\ op'.limit >= 0 /\ op'.offset >= 0)
         => /\ ret' = [call |-> "ListProcesses", err |-> NoErr]
            /\ ListResultAsStated(op')
            /\ UNCHANGED <<processes, proc>>]_vars

\* C19 where start + limit does not pass the largest int: the same result, for
\* every call whose limit added to min(offset, total) is an int.
C19_WithoutOverflow ==
    [][(/\ IsListProcesses /\ op'.limit >= 0 /\ op'.offset >= 0
        /\ Min(op'.offset, Cardinality(Matching(op'.state))) + op'.limit <= MaxInt)
         => /\ ret' = [call |-> "ListProcesses", err |-> NoErr]
            /\ ListResultAsStated(op')
            /\ UNCHANGED <<processes, proc>>]_vars

\* C20 as stated: ListProcesses pages over the order by start time, then id
\* (ids are issued in the order of the starts, so this is the order of the
\* ids): a page is in that order, a call with the arguments of the call before
\* it, on a table that has not changed since, returns the same page, and the
\* page at offset + limit that follows the page at offset on an unchanged
\* table repeats none of its entries and, when the two pages reach the end of
\* the matching entries from offset 0, together they hold every matching entry.
C20_Original ==
    [][(/\ IsListProcesses
        /\ ret'.err = NoErr
        /\ op.kind = "ListProcesses"
        /\ ret = [call |-> "ListProcesses", err |-> NoErr]
        /\ op.state = op'.state
        /\ op.limit = op'.limit
        /\ op.table = Table)
         => /\ \A i, j \in DOMAIN op'.page : i < j => op'.page[i] < op'.page[j]
            /\ op.offset = op'.offset => op'.page = op.page
            /\ (op.offset + op.limit = op'.offset)
                 => /\ \A i \in DOMAIN op.page, j \in DOMAIN op'.page :
                          op.page[i] # op'.page[j]
                    /\ (op.offset = 0 /\ op'.offset + op'.limit >= op'.total)
                         => {op.page[i] : i \in DOMAIN op.page}
                              \cup {op'.page[k] : k \in DOMAIN op'.page}
                            = Matching(op'.state)]_vars

\* C21 as stated: every call of Shutdown returns, with a PersistenceFile too:
\* once it has cancelled the cleanup loop, signalled the running processes and
\* released the resources, it has written the snapshot, r.mu is free again
\* and the caller has its nil error.
C21_Original ==
    [][Shutdown => (mu' = "free" /\ ret' = [call |-> "Shutdown", err |-> NoErr])]_vars

\* every handle of p and its signal channel are released
Released(p) ==
    /\ p.stdin = "nil"
    /\ p.stdout = "nil"
    /\ p.stderr = "nil"
    /\ p.signalChan = "nil"

\* C22: when Shutdown returns, every entry of the table has its stdin, stdout
\* and stderr handles and its signal channel released, every entry that was
\* Running with a live OS process has SIGTERM pending or delivered, whether or
\* not the signal to another entry failed, the OS process of an entry that was
\* not Running is left alone, and the table holds the entries it held.
C22_ShutdownSignalsRunningAndReleasesAll ==
    [][(Shutdown /\ ret' = [call |-> "Shutdown", err |-> NoErr])
         => /\ processes' = processes
            /\ cancelled'
            /\ \A id \in processes :
                  /\ Released(proc'[id])
                  /\ GetState(proc'[id]) = GetState(proc[id])
                  /\ (IsRunning(proc[id]) /\ os[id] = "alive") => os'[id] = "term"
                  /\ (IsRunning(proc[id]) /\ os[id] # "alive") => os'[id] = os[id]
                  /\ ~IsRunning(proc[id]) => os'[id] = os[id]]_vars

\* Shutdown has just returned on a table of two Running entries: the signal to
\* the first failed, its OS process being collected already, and the second
\* has its SIGTERM; both are released
C22_Witness ==
    /\ ret = [call |-> "Shutdown", err |-> NoErr]
    /\ processes = {1, 2}
    /\ IsRunning(proc[1]) /\ os[1] = "reaped"
    /\ IsRunning(proc[2]) /\ os[2] = "term"
    /\ Released(proc[1]) /\ Released(proc[2])

\* C23 as stated: once Cleanup has released the resources of a Process (in a
\* sweep or in Shutdown), a SendSignal on it, here through SendSignalToProcess
\* on an entry the table still holds, fails with ErrProcessNotFound and no
\* signal reaches the OS process, whatever the state of the Process.
C23_Original ==
    [][\A id \in 1..starts, sig \in Signals :
          (SendSignalToProcess(id, sig) /\ id \in processes /\ Released(proc[id]))
          => (ret'.err = ErrProcessNotFound /\ os' = os)]_vars

\* C24: once Cleanup has released the resources of a Process, an input sent to
\* it, here through SendInputToProcess on an entry the table still holds,
\* fails with ErrProcessNotRunning: for a Terminated entry and for one that is
\* still Running, as after Shutdown, where WriteToStdin itself refuses because
\* the handle is gone; nothing is written and nothing else changes.
C24_InputAfterCleanupIsRefused ==
    [][\A id \in 1..starts :
          (SendInputToProcess(id) /\ id \in processes /\ Released(proc[id]))
          => /\ ret' = [call |-> "SendInputToProcess", err |-> ErrProcessNotRunning]
             /\ WriteToStdin(id) = ErrProcessNotRunning
             /\ UNCHANGED <<processes, proc, os>>]_vars

\* an input was refused for an entry that Shutdown released and that is still
\* Running, its OS process alive
C24_Witness ==
    /\ ret = [call |-> "SendInputToProcess", err |-> ErrProcessNotRunning]
    /\ 1 \in processes
    /\ IsRunning(proc[1])
    /\ Released(proc[1])
    /\ os[1] \in {"alive", "term"}

\* how many times who has called Close on the handle h
ClosesBy(h, who) ==
    Cardinality({i \in DOMAIN handles.closes[h] : handles.closes[h][i] = who})

\* C25 as stated: a Cleanup of a Process whose resources are released leaves
\* the Process as it is, and whatever the interleaving of the calls of
\* Cleanup with the capture workers, WriteToStdin and SendSignal, no handle
\* and no signal channel has Close called on it twice, and none is read or
\* written after a Close.
C25_Original ==
    [][/\ (CallCleanup(1) /\ Released(proc[1])) => proc' = proc
       /\ \A h \in HandleNames : Len(handles'.closes[h]) <= 1
       /\ handles'.used = {}]_vars

\* C25, amended: every Cleanup leaves the Process released, a Cleanup of a
\* released Process changes neither the Process nor its handles, Cleanup
\* calls Close at most once on each handle whatever the number of calls,
\* nobody else closes the signal channel, which is therefore closed exactly
\* once and never used afterwards, and Cleanup signals nothing.
C25_CleanupIsIdempotent ==
    [][CallCleanup(1)
         => /\ Released(proc'[1])
            /\ Released(proc[1])
                 => (proc' = proc /\ handles'.closes = handles.closes)
            /\ \A h \in HandleNames :
                  Cardinality({i \in DOMAIN handles'.closes[h] :
                                 handles'.closes[h][i] = "Cleanup"}) <= 1
            /\ handles'.closes["signalChan"] = <<"Cleanup">>
            /\ "signalChan" \notin handles'.used
            /\ UNCHANGED <<os, processes>>]_vars

\* Cleanup has been called twice; the stdout pipe has been closed by
\* cmd.Wait(), by its capture worker and by Cleanup, and a WriteToStdin that
\* held the stdin pipe has written to it after it was closed
C25_Witness ==
    /\ handles.cleanups >= 2
    /\ Len(handles.closes["stdout"]) = 3
    /\ ClosesBy("stdout", "Cleanup") = 1
    /\ "stdin" \in handles.used
    /\ Released(proc[1])

\* C26: in a Registry constructed from a snapshot, an entry the snapshot has
\* as Running and whose pid was no live process at the load is Terminated,
\* and every reconstructed entry is inert: it keeps the state and the exit
\* code it was loaded with, SendSignal on it fails with ErrProcessNotFound and
\* WriteToStdin with ErrProcessNotRunning, so that no signal of this Registry
\* ever reaches the process with its pid, it has no monitor, no pipe to
\* capture from, and its buffers are empty; the calls made through the
\* Registry return these errors.
C26_LoadedEntriesAreInert ==
    disk.kind = "snapshot" =>
        /\ DOMAIN proc = DOMAIN disk.data
        /\ \A id \in DOMAIN disk.data :
              LET e == disk.data[id]
                  p == proc[id]
                  downgraded == e.state = ProcessStateRunning /\ os[id] = "gone"
              IN  /\ downgraded => GetState(p) = ProcessStateTerminated
                  /\ ~downgraded => GetState(p) = e.state
                  /\ GetExitCode(p) = e.exit_code
                  /\ SendSignalErr(id) = ErrProcessNotFound
                  /\ WriteToStdin(id) = ErrProcessNotRunning
                  /\ os[id] \in {"alive", "gone", "exit0", "exit1"}
                  /\ mon[id] = "none"
                  /\ deferred[id] = 0
                  /\ p.stdout = "nil" /\ p.stderr = "nil"
        /\ buf.stdout = <<>> /\ buf.stderr = <<>>
        /\ ret.call = "SendSignalToProcess" => ret.err = ErrProcessNotFound
        /\ ret.call = "SendInputToProcess"
             => ret.err \in {ErrProcessNotFound, ErrProcessNotRunning}
        /\ ret.call \in {"TerminateProcess", "TerminateProcess force"}
             => ret.err \in {ErrProcessNotFound, ErrProcessAlreadyTerminated}
        /\ op.kind = "ReadProcessOutput" => op.data = <<>>

\* of two entries the snapshot has as Running, the first, whose pid was gone,
\* is Terminated, and a forced TerminateProcess of the second, whose pid is a
\* live process, has failed with ErrProcessNotFound and left that process alone
C26_Witness ==
    /\ disk.kind = "snapshot"
    /\ DOMAIN disk.data = {1, 2}
    /\ disk.data[1].state = ProcessStateRunning /\ os[1] = "gone"
    /\ GetState(proc[1]) = ProcessStateTerminated
    /\ disk.data[2].state = ProcessStateRunning /\ os[2] = "alive"
    /\ IsRunning(proc[2])
    /\ ret = [call |-> "TerminateProcess force", err |-> ErrProcessNotFound]

\* C27 as stated: a Registry constructed with a PersistenceFile that is
\* missing, unreadable or not a snapshot is constructed without error, with an
\* empty table, and works normally from then on: r.mu is never held for good,
\* so that every call made on the Registry returns.
C27_Original ==
    disk.kind # "snapshot" =>
        /\ proc = <<>>
        /\ processes = {}
        /\ ret.call = "NewRegistry" => ret.err = NoErr
        /\ mu = "free"

\* C27, the construction alone: with such a file the table is empty and
\* NewRegistry has returned the Registry.
C27_BadFileGivesEmptyTable ==
    disk.kind # "snapshot" =>
        /\ proc = <<>>
        /\ processes = {}
        /\ ret.call = "NewRegistry" => ret.err = NoErr

\* a synchronous ExecuteShell call with a timeout has returned its output
ShellReturnedWithTimeout ==
    /\ shell.pc = "returned"
    /\ shell.result.kind = "output"
    /\ ~shell.args.Async
    /\ shell.args.Timeout > 0

ShellOutcome ==
    ShellReturnedWithTimeout =>
        /\ shell.result.ready = {"done"} => ~shell.result.TimedOut
        /\ shell.result.ready = {"timer"} => shell.result.TimedOut
        /\ ~shell.result.TimedOut =>
              /\ shell.waited
              /\ shell.result.ExitCode = shell.status
              /\ shell.result.IsError = (shell.status # 0)
        /\ shell.result.TimedOut =>
              /\ shell.timer = "fired"
              /\ shell.cmd # "alive"
              /\ shell.cancel
              /\ shell.result.ExitCode = 0
              /\ shell.result.IsError

C29_Original ==
    [][cleanupTerminatedProcesses =>
          /\ \A id \in processes' : GetState(proc'[id]) # ProcessStateTerminated
          /\ disk'.kind = "snapshot"
          /\ DOMAIN disk'.data = processes'
          /\ mu' = "free"]_vars

\* C30 as stated: whatever cmd.Wait() returns, the monitor records an exit
\* code, the status of the exit when it is not 0 and 0 otherwise, and only then
\* sets the state: a Process never becomes Terminated by its monitor without
\* an exit code.
C30_Original ==
    [][\A id \in DOMAIN proc :
          /\ (mon[id] = "wait" /\ mon'[id] = "setState") =>
                GetExitCode(proc'[id]) = <<ExitStatus(os[id])>>
          /\ (mon[id] = "setState" /\ mon'[id] # "setState") =>
                /\ GetState(proc'[id]) = ProcessStateTerminated
                /\ GetExitCode(proc'[id]) # <<>>
       ]_vars

\* C31 as stated: once a cleanup sweep has deleted the entry of a Process, no
\* goroutine reads or changes that Process: its monitor has finished with it,
\* no grace-period goroutine of TerminateProcess looks at its state any more,
\* and the Process itself stays as the sweep left it.
C31_Original ==
    [][\A id \in DOMAIN proc :
          id \notin processes =>
             /\ proc'[id] = proc[id]
             /\ mon[id] \in {"save", "done"}
             /\ deferred'[id] = deferred[id]
       ]_vars

\* C32 as stated: the end of the ctx that was given to StartProcess, after
\* StartProcess has returned, sends no signal to the process and changes
\* neither the OS process nor the Process: only TerminateProcess,
\* SendSignalToProcess, the grace-period goroutine and Shutdown signal it.
C32_Original ==
    [][\A id \in DOMAIN proc : CancelCtx(id) => (os'[id] = os[id] /\ proc' = proc)]_vars

\* C33 as stated: once Shutdown has cancelled r.ctx and returned, the cleanup
\* loop starts no sweep any more: no entry leaves the table from then on,
\* whether or not a tick was pending when the ctx was cancelled.
C33_Original ==
    [][cancelled => processes \subseteq processes']_vars

\* what the Scanner and the loop of captureOutput make of the bytes data once
\* all of them are read: every line with its end-of-line marker replaced by a
\* newline, a last line without a marker given one
RECURSIVE Rendered(_)
Rendered(data) ==
    IF data = <<>> THEN <<>>
    ELSE LET scan == ScanLines(data, TRUE)
         IN  scan.token[1] \o <<"\n">> \o Rendered(DropFront(data, scan.advance))

\* the bytes of a stream that its capture worker has read from the pipe
Consumed(s) ==
    SubSeq(handles.emitted[s], 1, Len(handles.emitted[s]) - Len(handles.pipe[s]))

\* the slice and the base position that ob keeps for the stream s
Retained(ob, s) ==
    IF s = "stdout" THEN <<ob.stdout, ob.stdoutPos>> ELSE <<ob.stderr, ob.stderrPos>>

\* the bytes handed to a stream of the buffer are the lines of what was read
\* from the pipe of that stream, in the order of the pipe, and the buffer
\* retains the last of them from its base position on
AppendedInOrder ==
    \A s \in OutputStreams :
        /\ written[s] \o Rendered(handles.scanned[s]) = Rendered(Consumed(s))
        /\ Retained(buf, s)[1] = DropFront(written[s], Retained(buf, s)[2])

\* a step that appends to a stream is a step of the capture worker of that
\* stream, appends one line ending in the newline put back, and leaves the
\* other stream as it was
OneLineToOwnStream ==
    \A s \in OutputStreams :
        (written'[s] # written[s] \/ Retained(buf', s) # Retained(buf, s)) =>
            /\ handles.capture[s] = "scan"
            /\ handles'.scanned[s] # handles.scanned[s] \/ handles'.capture[s] = "close"
            /\ \E line \in SeqsOf(PipeBytes \ {"\n"}, 0, MaxEmit) :
                  written'[s] = written[s] \o line \o <<"\n">>
            /\ \A t \in OutputStreams \ {s} :
                  /\ written'[t] = written[t]
                  /\ Retained(buf', t) = Retained(buf, t)

\* C34: each capture worker appends the lines of its own pipe to the buffer of
\* its own stream, in the order the child wrote them, one Append per line with
\* a newline put back, and never to the buffer of the other stream; the buffer
\* of a stream retains those bytes in that order from its base position on, and
\* an Append to one stream leaves the retained bytes and the base position of
\* the other unchanged.
C34_LinesAppendedInOrderToOwnStream ==
    /\ []AppendedInOrder
    /\ [][OneLineToOwnStream]_vars

\* both workers have appended a line and returned, the lines of stdout having
\* pushed its base position forward
C34_Witness ==
    /\ \A s \in OutputStreams : handles.capture[s] = "returned"
    /\ written.stderr # <<>>
    /\ Len(written.stdout) > buf.maxSize
    /\ buf.stdoutPos > 0
    /\ buf.stderrPos = 0

\* the base position of the stream s of ob
BasePosition(ob, s) == IF s = "stdout" THEN ob.stdoutPos ELSE ob.stderrPos

\* the offsets of the bytes the reader has received
Offsets == {reader.got[i][1] : i \in DOMAIN reader.got}

\* what the reader holds: each byte is the byte written at its offset, the
\* offsets increase strictly, and an offset it has passed without receiving
\* the byte is below the base position
ReceivedInOrder ==
    reader.stream # "none" =>
        /\ reader.next <= Len(written[reader.stream])
        /\ \A i \in DOMAIN reader.got :
              /\ reader.got[i][1] < reader.next
              /\ reader.got[i][2] = written[reader.stream][reader.got[i][1] + 1]
        /\ \A i, j \in DOMAIN reader.got : i < j => reader.got[i][1] < reader.got[j][1]
        /\ \A o \in 0..(reader.next - 1) :
              o \notin Offsets => o < BasePosition(buf, reader.stream)
        /\ BasePosition(buf, reader.stream) = 0 =>
              [i \in DOMAIN reader.got |-> reader.got[i][2]]
                 = SubSeq(written[reader.stream], 1, reader.next)

\* one read of the reader: the offsets it passes over were evicted before the
\* read, and when none was, it receives what follows its position, without a
\* gap, up to the end of the stream or to its maxBytes
ReadSkipsOnlyEvicted ==
    reader' # reader =>
        LET s == reader'.stream
            new == SubSeq(reader'.got, Len(reader.got) + 1, Len(reader'.got))
        IN  /\ \A o \in reader.next..(reader'.next - 1) :
                  (\A i \in DOMAIN new : new[i][1] # o) => o < BasePosition(buf, s)
            /\ BasePosition(buf, s) <= reader.next =>
                  /\ reader'.next - reader.next = Len(new)
                  /\ Len(new) > 0 \/ reader.next = Len(written[s])

\* C35: a reader of one stream that starts at position 0 and reads on at the
\* position each read returns, while WriteStdout and WriteStderr go on,
\* receives bytes at strictly increasing absolute offsets, each the byte
\* written at that offset and none twice; the bytes it passes over are those
\* evicted before it read them, and while no eviction overtakes it, it
\* receives every byte written, once.
C35_SequentialReaderMissesOnlyEvicted ==
    /\ []ReceivedInOrder
    /\ [][ReadSkipsOnlyEvicted]_vars

\* the reader has received a byte, was overtaken by an eviction, and has caught
\* up with the end of the stream past the bytes it missed
C35_Witness ==
    /\ reader.stream = "stderr"
    /\ Len(reader.got) >= 2
    /\ \E o \in 0..(reader.next - 1) : o \notin Offsets
    /\ 0 \in Offsets
    /\ reader.next = Len(written.stderr)
    /\ written.stdout # <<>>

\* C36 as stated: a snapshot written from a table and loaded by a new Registry
\* gives the ids of the table, each with the pid, command, argument list,
\* shell, start time, exit code, environment and working directory it had, and
\* with its state, but for a Running entry whose pid is gone.
C36_Original ==
    [][(ret.call = "saveToDisk" /\ ret'.call = "NewRegistry") =>
          /\ processes' = processes
          /\ \A id \in processes :
                /\ proc'[id].PID = proc[id].PID
                /\ proc'[id].Command = proc[id].Command
                /\ proc'[id].Args = proc[id].Args
                /\ proc'[id].Shell = proc[id].Shell
                /\ proc'[id].StartTime.sec = proc[id].StartTime.sec
                /\ proc'[id].StartTime.nsec = proc[id].StartTime.nsec
                /\ proc'[id].ExitCode = proc[id].ExitCode
                /\ proc'[id].Environment = proc[id].Environment
                /\ proc'[id].WorkingDir = proc[id].WorkingDir
                /\ \/ proc'[id].State = proc[id].State
                   \/ /\ proc[id].State = ProcessStateRunning
                      /\ os'[id] = "gone"
                      /\ proc'[id].State = ProcessStateTerminated
       ]_vars

\* C37 as stated: in every reachable state the table has at most MaxProcesses
\* entries, under any interleaving of StartProcess calls and right after a
\* Registry has been constructed from a snapshot.
C37_Original == Cardinality(processes) <= config.MaxProcesses

\* C38 as stated: a status returned by GetProcessStatus has an exit code only
\* together with the state Terminated, never Running with an exit code, also
\* while the monitor of the process runs.
C38_Original ==
    (op.kind = "GetProcessStatus" /\ op.status # <<>>) =>
        (op.status[1].ExitCode # <<>> => op.status[1].State = ProcessStateTerminated)

\* at most one saveToDisk is between its os.Create and the end of its Write
OneWriter == Cardinality({s \in saving : s.pc = "encode"}) <= 1

\* the file, when no saveToDisk is under way, is the text of one table
FileIsOneTable ==
    (saving = {} /\ disk.kind = "text") =>
        \E d \in [1..Len(proc) ->
                    [State : {ProcessStateRunning, ProcessStateTerminated},
                     ExitCode : {<<>>, <<0>>, <<1>>, <<0 - 1>>}]] :
           disk.text = EncodeTable(d, Len(proc))

\* C39 as stated: no two executions of saveToDisk truncate and write the file
\* at overlapping times, and after all of them the file is the complete
\* serialization of one table.
C39_Original == OneWriter /\ FileIsOneTable

\* the bytes of data up to its last newline: the complete lines
RECURSIVE CompleteLines(_)
CompleteLines(data) ==
    IF data = <<>> \/ data[Len(data)] = "\n" THEN data
    ELSE CompleteLines(SubSeq(data, 1, Len(data) - 1))

\* every complete line the child has written to a stream has been handed to
\* the buffer of that stream
NothingLost ==
    \A s \in OutputStreams :
        LET lines == Rendered(CompleteLines(handles.emitted[s]))
        IN  /\ Len(lines) <= Len(written[s])
            /\ SubSeq(written[s], 1, Len(lines)) = lines

\* C40 as stated: every complete line that a process started with captureOutput
\* wrote to a stream before it exited is eventually appended to the buffer of
\* that stream, however the capture workers and the cmd.Wait() of the monitor
\* interleave.
C40_Original == <>[]NothingLost

====
